---------------------------- MODULE Spec2Model ----------------------------
(***************************************************************************)
(* A model of the Hanabi rules engine of src/hanasim/hanasim.py, and in   *)
(* the hanabi_sim_ operators of its variant src/hanabi_sim/hanasim.py: the *)
(* GameState object (deck, hands, discard pile, fireworks, hint tokens,    *)
(* strikes, score, turn and ending logic) driven by calls of its methods,  *)
(* the agents of src/agents that choose the moves, and the process of     *)
(* src/main.py that plays the games.                                       *)
(*                                                                         *)
(* Every method is an operator from a game record to a game record.  A     *)
(* Python exception is the field exc of the result: the statements before  *)
(* the raise have acted, those after it have not, and the caller sees the  *)
(* object as the raise left it.                                            *)
(***************************************************************************)
EXTENDS Integers, Sequences, FiniteSets, TLC

(***************************************************************************)
(* Program constants                                                       *)
(***************************************************************************)
COLOURS == <<"R", "G", "B", "Y", "P">>
VALUES == <<1, 2, 3, 4, 5>>
CARDCOUNTS == <<3, 2, 2, 2, 1>>

MINPLAYERS == 2
MAXPLAYERS == 5
MINHAND == 4
MAXHAND == 5
MAXHINTS == 8
MAXSTRIKES == 3
\* GameState.HANDSIZE: the hand size the drivers give a game of n players
HANDSIZE == [n \in MINPLAYERS..MAXPLAYERS |-> IF n <= 3 THEN MAXHAND ELSE MINHAND]
TOTALCARDS == 50

(***************************************************************************)
(* Bounds of the model                                                     *)
(***************************************************************************)
\* players of a modelled game: MINPLAYERS..MaxPlayersModel
MaxPlayersModel == 2
\* supplied decks: every sequence of at most MaxDeck cards over DeckCards
MaxDeck == 2
\* SpecGame: the supplied deck whose draws are the run R1 R2 .. of RunLen cards
RunLen == 25
\* Spec: the supplied decks whose draws are the runs of at most OpenRun cards
OpenRun == 3
\* cards drawn from a generated 50-card deck
MaxDrawn == 3
\* seeds a GameState is constructed with: 0..NumShuffles-1
NumShuffles == 2
\* shuffles made by the shared generator since it was last seeded
MaxShuffled == 2
\* SpecDeal: seeds of the games dealt from a generated deck: 0..DealShuffles-1
DealShuffles == 8
\* SpecPile: supplied decks of at most MaxPile cards over PileCards
MaxPile == 4
\* SpecGame: strikes a game may collect (the code sets no limit)
StrikeCap == 4
\* SpecDeal: strikes a game may collect
OpenStrikes == 1
\* Spec: calls made on the object after its construction
OpenCalls == 4
\* SpecVariant: calls made on the object after its first setup()
VariantCalls == 3
\* largest index a PLAY or DISCARD names; the smallest is -NegIndex
MaxIndex == 2
NegIndex == 1

(***************************************************************************)
(* Helpers                                                                 *)
(***************************************************************************)
Range(f) == {f[x] : x \in DOMAIN f}
ColourSet == Range(COLOURS)
ValueSet == Range(VALUES)
Min(a, b) == IF a < b THEN a ELSE b

Last(s) == s[Len(s)]
Front(s) == SubSeq(s, 1, Len(s) - 1)
RemoveAt(s, k) == SubSeq(s, 1, k - 1) \o SubSeq(s, k + 1, Len(s))

\* Python list indexing: position (1-based) that index idx addresses in a list
\* of length n; idx is valid iff the position lies in 1..n
PyPos(n, idx) == IF idx >= 0 THEN idx + 1 ELSE n + idx + 1
PyValid(n, idx) == PyPos(n, idx) \in 1..n

NoExc == "none"

\* class Card: value equality on (colour, value)
Card(c, v) == [colour |-> c, value |-> v]
Cards == {Card(c, v) : c \in ColourSet, v \in ValueSet}

\* class Card defines __str__ and __repr__ but no asString method
CardHasAsString == FALSE

raise(s, e) == [s EXCEPT !.exc = e]
\* the call that left s raised: the statements after it do not run
Raised(s) == s.exc # NoExc

\* evaluating card.asString() for a log message
asString(s) == IF CardHasAsString THEN s ELSE raise(s, "AttributeError")

(***************************************************************************)
(* class Firework                                                          *)
(***************************************************************************)
getNextCard(s, colour) == Card(colour, Len(s.fireworks[colour]) + 1)

\* a pile that takes any card of the next rank, whatever its colour
addCardOk_AnyColour(s, colour, card) ==
    getNextCard(s, colour).value = card.value

\* the test of addCard: the card is the next card of this pile
addCardOk(s, colour, card) == getNextCard(s, colour) = card

addCard(s, colour, card) ==
    IF addCardOk(s, colour, card)
    THEN [s EXCEPT !.fireworks[colour] = Append(@, card)]
    ELSE s

(***************************************************************************)
(* class DiscardPile                                                       *)
(***************************************************************************)
DiscardPile_setup(s) ==
    [s EXCEPT !.cardCounts = [c \in Cards |-> 0],
              !.deadCards = {},
              !.total = 0]

\* DiscardPile.remove: the count of the card goes down by one
DiscardPile_remove(s, card) ==
    IF ~(s.cardCounts[card] > 0)
    THEN raise(s, "AssertionError")
    ELSE [s EXCEPT !.cardCounts[card] = @ - 1]

\* only the card itself dies with its last copy
deadWith_OnlyCard(card) == {card}

\* the cards that die with the last copy of card: its colour, its rank and up
deadWith(card) ==
    {Card(card.colour, v) : v \in {w \in ValueSet : w >= card.value}}

\* a pile that declares a card dead at its first discarded copy
DiscardPile_discard_FirstCopy(s, card) ==
    [s EXCEPT !.cardCounts[card] = @ + 1,
              !.total = @ + 1,
              !.deadCards = @ \cup deadWith(card)]

DiscardPile_discard(s, card) ==
    LET n == s.cardCounts[card] + 1
        dead == IF n = CARDCOUNTS[card.value] THEN deadWith(card) ELSE {}
    IN [s EXCEPT !.cardCounts[card] = n,
                 !.total = @ + 1,
                 !.deadCards = @ \cup dead]

\* the keys of cardCounts in the order setup() inserts them
cardCountsKeys ==
    [i \in 1..(Len(COLOURS) * Len(VALUES)) |->
        Card(COLOURS[((i - 1) \div Len(VALUES)) + 1],
             VALUES[((i - 1) % Len(VALUES)) + 1])]

\* every card that has a copy left, the last copy or not
getCriticalCards_AnyLeft(s) ==
    LET left(card) == s.cardCounts[card] < CARDCOUNTS[card.value]
    IN SelectSeq(cardCountsKeys, left)

\* the list of the cards with cardCounts[card] == maxCardCounts[value] - 1
getCriticalCards(s) ==
    LET last(card) == s.cardCounts[card] = CARDCOUNTS[card.value] - 1
    IN SelectSeq(cardCountsKeys, last)

\* the inner loop of getMaxScore: ranks counted from VALUES[v] up to the break
RECURSIVE colourScore(_, _, _)
colourScore(s, colour, v) ==
    IF v > Len(VALUES) THEN 0
    ELSE IF s.cardCounts[Card(colour, VALUES[v])] < CARDCOUNTS[VALUES[v]]
    THEN 1 + colourScore(s, colour, v + 1)
    ELSE 0

\* the outer loop of getMaxScore, from COLOURS[i] on
RECURSIVE scoreFrom(_, _)
scoreFrom(s, i) ==
    IF i > Len(COLOURS) THEN 0
    ELSE colourScore(s, COLOURS[i], 1) + scoreFrom(s, i + 1)

\* a score that counts every rank with a copy left, with no break
getMaxScore_NoBreak(s) ==
    Cardinality({card \in Cards : s.cardCounts[card] < CARDCOUNTS[card.value]})

getMaxScore(s) == scoreFrom(s, 1)

\* Agent.computeMaxAfterDiscard of src/agents/cheater_smart.py: the pile it
\* leaves behind (obj) and the score it returns (ret)
computeMaxAfterDiscard(s, card) ==
    LET discarded == DiscardPile_discard(s, card)
    IN [obj |-> DiscardPile_remove(discarded, card),
        ret |-> getMaxScore(discarded)]

(***************************************************************************)
(* class GameState                                                         *)
(***************************************************************************)
NewFireworks == [c \in ColourSet |-> <<>>]

\* GameState.__init__
GameState(nPlayers, handSize, deckNone, deck) ==
    [isOver |-> FALSE,
     nHints |-> MAXHINTS,
     strikes |-> 0,
     score |-> 0,
     turn |-> 0,
     playerTurn |-> 0,
     turnAfterEmpty |-> nPlayers,
     nPlayers |-> nPlayers,
     handSize |-> handSize,
     deckNone |-> deckNone,
     deck |-> deck,
     moveHistory |-> <<>>,
     hands |-> [p \in 0..(nPlayers - 1) |-> <<>>],
     cardCounts |-> [c \in Cards |-> 0],
     deadCards |-> {},
     total |-> 0,
     playedCards |-> {},
     fireworks |-> NewFireworks,
     exc |-> NoExc]

\* the truth value Python gives self.deck
deckTruthy(s) == ~s.deckNone /\ s.deck # <<>>

\* a token added without looking at the cap
addHint_NoCap(s) == [s EXCEPT !.nHints = @ + 1]

addHint(s) ==
    IF s.nHints < MAXHINTS THEN [s EXCEPT !.nHints = @ + 1] ELSE s

\* a token for every card played
playedHint_AnyRank(s, card) == addHint(s)

\* playCard, lines 384-385: the token for a played card of rank 5
playedHint(s, card) == IF card.value = 5 THEN addHint(s) ELSE s

\* a card dealt to the hand that also stays on top of the deck
drawCard_DeckKept(s, playerID) ==
    IF ~(Len(s.hands[playerID]) < s.handSize)
    THEN raise(s, "AssertionError")
    ELSE IF deckTruthy(s)
         THEN asString([s EXCEPT !.hands[playerID] = Append(@, Last(s.deck))])
         ELSE s

drawCard(s, playerID) ==
    IF ~(Len(s.hands[playerID]) < s.handSize)
    THEN raise(s, "AssertionError")
    ELSE IF deckTruthy(s)
         THEN asString([s EXCEPT !.deck = Front(@),
                                 !.hands[playerID] = Append(@, Last(s.deck))])
         ELSE s

forcedDiscard(s, playerID, index) ==
    LET hand == s.hands[playerID]
        k == PyPos(Len(hand), index)
    IN IF ~PyValid(Len(hand), index)
       THEN raise(s, "IndexError")
       ELSE LET popped == [s EXCEPT !.hands[playerID] = RemoveAt(hand, k)]
                logged == asString(DiscardPile_discard(popped, hand[k]))
            IN IF Raised(logged) THEN logged ELSE drawCard(logged, playerID)

discard(s, playerID, index) ==
    LET forced == forcedDiscard(s, playerID, index)
    IN IF Raised(forced) THEN forced ELSE addHint(forced)

playCard(s, playerID, idx, colour) ==
    LET hand == s.hands[playerID]
        k == PyPos(Len(hand), idx)
    IN IF ~(idx < Len(hand))
       THEN raise(s, "AssertionError")
       ELSE IF ~PyValid(Len(hand), idx)
       THEN raise(s, "IndexError")
       ELSE LET card == hand[k]
                struck == asString([s EXCEPT !.strikes = @ + 1])
            IN IF addCardOk(s, colour, card)
               THEN LET played == [addCard(s, colour, card) EXCEPT
                                      !.playedCards = @ \cup {card},
                                      !.hands[playerID] = RemoveAt(hand, k),
                                      !.score = @ + 1]
                    IN drawCard(playedHint(played, card), playerID)
               ELSE IF Raised(struck) THEN struck
                    ELSE forcedDiscard(struck, playerID, idx)

\* bonus turns counted down on every move, whatever the deck holds
endOfMove_AlwaysCount(s, move) ==
    LET t == [s EXCEPT !.moveHistory = Append(@, move),
                       !.turn = @ + 1,
                       !.playerTurn = (s.turn + 1) % s.nPlayers]
    IN IF t.strikes = MAXSTRIKES
       THEN [t EXCEPT !.isOver = TRUE]
       ELSE LET u == [t EXCEPT !.turnAfterEmpty = @ - 1]
            IN IF u.turnAfterEmpty = 0 THEN [u EXCEPT !.isOver = TRUE] ELSE u

\* a hint that is resolved but not entered in the history
endOfMove_HintUnrecorded(s, move) ==
    LET t == [s EXCEPT !.moveHistory = IF move.moveType = "HINT" THEN @
                                       ELSE Append(@, move),
                       !.turn = @ + 1,
                       !.playerTurn = (s.turn + 1) % s.nPlayers]
    IN IF t.strikes = MAXSTRIKES
       THEN [t EXCEPT !.isOver = TRUE]
       ELSE LET u == IF ~deckTruthy(t)
                     THEN [t EXCEPT !.turnAfterEmpty = @ - 1]
                     ELSE t
            IN IF u.turnAfterEmpty = 0 THEN [u EXCEPT !.isOver = TRUE] ELSE u

\* an ending that is decided anew at the end of every move
endOfMove_Recomputed(s, move) ==
    LET t == [s EXCEPT !.moveHistory = Append(@, move),
                       !.turn = @ + 1,
                       !.playerTurn = (s.turn + 1) % s.nPlayers]
        u == IF t.strikes # MAXSTRIKES /\ ~deckTruthy(t)
             THEN [t EXCEPT !.turnAfterEmpty = @ - 1]
             ELSE t
    IN [u EXCEPT !.isOver = (u.strikes = MAXSTRIKES \/ u.turnAfterEmpty = 0)]

\* the part of doMove after the move is resolved (lines 349-363)
endOfMove(s, move) ==
    LET t == [s EXCEPT !.moveHistory = Append(@, move),
                       !.turn = @ + 1,
                       !.playerTurn = (s.turn + 1) % s.nPlayers]
    IN IF t.strikes = MAXSTRIKES
       THEN [t EXCEPT !.isOver = TRUE]
       ELSE LET u == IF ~deckTruthy(t)
                     THEN [t EXCEPT !.turnAfterEmpty = @ - 1]
                     ELSE t
            IN IF u.turnAfterEmpty = 0 THEN [u EXCEPT !.isOver = TRUE] ELSE u

\* a hint given without looking at the tokens left
hintMove_NoCheck(s) == [s EXCEPT !.nHints = @ - 1]

\* the HINT branch of doMove
hintMove(s) ==
    IF ~(s.nHints > 0)
    THEN raise(s, "AssertionError")
    ELSE [s EXCEPT !.nHints = @ - 1]

\* a doMove that resolves the move of any player
doMove_AnyPlayer(s, move) ==
    LET resolved ==
            CASE move.moveType = "DISCARD" ->
                   discard(s, move.playerID, move.index)
              [] move.moveType = "PLAY" ->
                   playCard(s, move.playerID, move.index, move.colour)
              [] move.moveType = "HINT" -> hintMove(s)
              [] OTHER -> raise(s, "ValueError")
    IN IF Raised(resolved) THEN resolved ELSE endOfMove(resolved, move)

doMove(s, move) ==
    IF move.playerID # s.playerTurn
    THEN raise(s, "AssertionError")
    ELSE LET resolved ==
                 CASE move.moveType = "DISCARD" ->
                        discard(s, move.playerID, move.index)
                   [] move.moveType = "PLAY" ->
                        playCard(s, move.playerID, move.index, move.colour)
                   [] move.moveType = "HINT" -> hintMove(s)
                   [] OTHER -> raise(s, "ValueError")
         IN IF Raised(resolved) THEN resolved ELSE endOfMove(resolved, move)

\* createDeck: colour-major, rank-minor, CARDCOUNTS[rank] copies of each card
\* one copy of every card, whatever CARDCOUNTS says
Copies_One(card, n) == <<card>>

RECURSIVE Copies(_, _)
Copies(card, n) == IF n = 0 THEN <<>> ELSE <<card>> \o Copies(card, n - 1)

RECURSIVE ColourCards(_, _)
ColourCards(c, v) ==
    IF v > Len(VALUES) THEN <<>>
    ELSE Copies(Card(c, VALUES[v]), CARDCOUNTS[VALUES[v]]) \o ColourCards(c, v + 1)

RECURSIVE DeckFrom(_)
DeckFrom(i) ==
    IF i > Len(COLOURS) THEN <<>>
    ELSE ColourCards(COLOURS[i], 1) \o DeckFrom(i + 1)

createDeck(s) == [s EXCEPT !.deck = DeckFrom(1), !.deckNone = FALSE]

\* The generator of module random, which every GameState shares
\* (self.random = random): the seed it was last given, the shuffles made
\* since, and the 32-bit outputs it has produced since (pos).
Seeded(sd) == [seed |-> sd, used |-> 0, pos |-> 0]

\* GeneratorBits[sd + 1][i]: the top six bits of the i-th 32-bit output of
\* CPython's Mersenne Twister after random.seed(sd), for sd = 0..9.
GeneratorBits ==
    <<
     <<
        54, 24, 48, 56, 26, 2, 16, 61, 32, 31, 25, 58, 50, 53, 19, 61, 30,
        22, 37, 57, 58, 13, 32, 8, 18, 8, 48, 6, 39, 51, 16, 63, 58, 34, 62,
        45, 51, 38, 57, 9, 19, 6, 46, 4, 57, 54, 43, 21, 30, 35, 6, 22, 27,
        20, 39, 40, 58, 13, 61, 35, 30, 28, 55, 33, 16, 3, 51, 58, 35, 58,
        0, 5, 46, 53, 25, 45, 52, 50, 42, 40, 0, 39, 31, 52, 55, 21, 15, 46,
        20, 45, 55, 4, 12, 58, 36, 14, 15, 51, 61, 9, 51, 34, 28, 5, 5, 63,
        20, 56, 32, 63, 59, 31, 6, 19, 35, 18, 45, 7, 35, 21, 52, 59, 34,
        13, 61, 51, 38, 35, 37, 18, 28, 5, 38, 51, 24, 20, 36, 15, 18, 11,
        12, 52, 11, 2, 39, 62, 42, 16, 30, 4, 5, 43, 48, 8, 56, 9, 59, 2,
        53, 5, 57, 44, 59, 53, 34, 43, 25, 53, 45, 33, 17, 33, 51, 15, 54,
        13, 57, 43, 37, 52, 60, 26, 37, 17, 28, 31, 42, 41, 63, 44, 58, 62,
        50, 22, 5, 20, 39, 7, 31, 37, 40, 21, 54, 12, 15, 1, 46, 17, 7, 45,
        14, 23, 50, 10, 21, 27, 52, 3, 6, 50, 9, 54, 44, 14, 2, 52, 36, 40,
        58, 59, 34, 38, 43, 4, 1, 7, 40, 12, 38, 53, 36, 7, 25, 5, 23, 53,
        62, 7, 2, 38, 1, 12, 61, 62, 11, 45, 7, 30, 13, 46, 51, 3, 59, 43,
        1, 34, 27, 39, 6, 53, 16, 4, 14, 4, 41, 19, 22, 27, 11, 3, 32, 29,
        2, 38, 6, 44, 63, 25, 12, 16, 22, 57, 46, 30, 53, 57, 58, 36, 10,
        44, 43, 13, 61, 49, 3, 50, 43, 10, 54, 10, 21, 33, 16, 7, 38, 58,
        28, 42, 11, 0, 30, 43, 26, 57, 36, 55, 32, 58, 19, 41, 22, 24, 53,
        42, 16, 9, 35, 44, 0, 29, 47, 5, 21, 47, 2, 34, 17, 8, 15, 48, 61,
        30, 22, 39, 18, 43, 22, 37, 60, 57, 40, 54, 39, 8, 45, 19, 24, 47,
        26, 53, 41, 5, 0, 38, 12, 44, 21, 10, 15, 14, 40, 28, 24, 45, 56,
        43, 36, 55, 26, 2, 25, 55, 44, 36, 26, 49, 42, 45, 2, 10, 28, 4, 16,
        44, 10, 28, 33, 56, 31, 58, 35, 38, 48, 0, 56, 2, 31, 20, 19, 53,
        29, 3, 51, 52, 56, 62, 51, 26, 12, 35, 63, 61, 40, 62, 5, 53, 46, 8,
        63, 0, 25, 60, 43, 26, 20, 0, 13, 0, 45, 48, 0
     >>,
     <<
        8, 36, 54, 51, 48, 4, 16, 7, 31, 48, 28, 30, 41, 24, 50, 13, 6, 31,
        1, 57, 53, 24, 27, 38, 48, 49, 0, 44, 28, 17, 46, 51, 14, 37, 60, 6,
        57, 20, 1, 1, 1, 41, 34, 0, 60, 56, 24, 43, 13, 62, 27, 46, 1, 33,
        14, 48, 28, 60, 31, 35, 14, 22, 14, 43, 14, 48, 29, 60, 18, 59, 1,
        26, 53, 58, 35, 59, 41, 6, 11, 40, 63, 46, 55, 18, 7, 47, 21, 57,
        46, 62, 45, 32, 59, 61, 27, 32, 53, 58, 42, 12, 19, 18, 37, 62, 56,
        31, 54, 60, 32, 25, 37, 54, 2, 30, 15, 47, 51, 25, 26, 42, 11, 23,
        35, 56, 44, 49, 43, 47, 23, 5, 28, 42, 32, 6, 49, 10, 33, 53, 25,
        23, 31, 46, 1, 30, 2, 19, 45, 54, 62, 39, 37, 37, 25, 41, 10, 10,
        32, 14, 62, 0, 49, 12, 34, 58, 55, 35, 14, 25, 32, 22, 60, 54, 36,
        22, 29, 58, 17, 42, 35, 38, 61, 46, 0, 24, 50, 54, 52, 61, 56, 60,
        47, 32, 51, 8, 33, 49, 35, 13, 27, 60, 3, 30, 55, 23, 36, 35, 12,
        60, 32, 26, 31, 52, 22, 26, 22, 0, 34, 34, 39, 50, 39, 21, 29, 38,
        1, 51, 14, 40, 11, 35, 37, 11, 55, 5, 51, 35, 51, 54, 52, 59, 16, 2,
        53, 60, 43, 4, 5, 55, 1, 28, 0, 48, 48, 17, 15, 17, 7, 51, 39, 11,
        22, 18, 4, 10, 10, 16, 33, 60, 10, 42, 17, 41, 45, 18, 29, 44, 20,
        31, 30, 7, 1, 19, 24, 21, 26, 50, 12, 16, 6, 16, 57, 46, 32, 62, 13,
        61, 38, 27, 52, 62, 1, 14, 1, 25, 9, 2, 46, 61, 10, 28, 45, 32, 43,
        27, 34, 53, 14, 62, 62, 40, 51, 44, 33, 28, 14, 33, 41, 1, 25, 43,
        36, 51, 20, 42, 40, 27, 3, 47, 19, 8, 61, 13, 56, 3, 19, 4, 54, 4,
        19, 58, 60, 19, 47, 10, 26, 36, 16, 8, 0, 35, 56, 54, 2, 37, 52, 13,
        61, 57, 36, 29, 10, 52, 55, 55, 62, 49, 45, 39, 32, 2, 24, 12, 22,
        6, 13, 36, 43, 57, 27, 37, 12, 31, 6, 60, 42, 24, 18, 32, 31, 1, 20,
        39, 55, 25, 57, 18, 1, 10, 12, 54, 20, 51, 63, 36, 50, 8, 21, 27,
        13, 17, 43, 6, 53, 24, 59, 35, 22, 58, 56, 53, 43, 34, 31, 49, 63,
        34, 15, 4, 46, 2, 5, 8, 10, 10, 58, 34, 13, 17, 48, 21, 38, 32, 53,
        16
     >>,
     <<
        61, 55, 60, 54, 3, 5, 5, 23, 53, 10, 47, 51, 42, 54, 19, 16, 38, 13,
        38, 2, 37, 43, 10, 63, 27, 40, 25, 51, 46, 55, 63, 32, 60, 23, 34,
        59, 28, 32, 17, 57, 2, 55, 1, 23, 29, 59, 20, 58, 24, 27, 57, 56,
        33, 10, 35, 11, 15, 14, 1, 11, 20, 11, 8, 32, 32, 23, 63, 32, 43,
        35, 11, 63, 57, 28, 50, 26, 47, 33, 58, 58, 48, 23, 50, 37, 22, 23,
        62, 54, 61, 28, 10, 61, 48, 25, 45, 47, 29, 41, 33, 15, 31, 17, 59,
        31, 32, 32, 53, 50, 22, 42, 56, 29, 57, 57, 29, 22, 36, 46, 58, 35,
        46, 29, 31, 42, 14, 60, 20, 52, 44, 53, 10, 56, 58, 39, 17, 49, 58,
        30, 19, 19, 61, 51, 45, 53, 32, 35, 33, 32, 41, 39, 37, 26, 19, 46,
        13, 31, 32, 23, 59, 43, 39, 56, 4, 50, 52, 21, 46, 0, 58, 52, 12,
        63, 47, 6, 3, 36, 41, 3, 17, 37, 14, 43, 56, 58, 6, 48, 33, 8, 54,
        17, 15, 52, 13, 60, 56, 3, 27, 57, 45, 48, 2, 3, 23, 23, 11, 15, 43,
        1, 5, 7, 61, 4, 1, 2, 46, 58, 1, 23, 16, 8, 52, 59, 10, 47, 11, 33,
        44, 0, 24, 37, 2, 50, 63, 15, 9, 62, 2, 0, 22, 60, 39, 40, 47, 47,
        7, 18, 21, 31, 1, 19, 28, 35, 49, 38, 47, 2, 57, 16, 48, 25, 55, 39,
        45, 9, 30, 61, 14, 5, 42, 43, 20, 53, 6, 1, 28, 50, 55, 60, 8, 33,
        37, 49, 25, 31, 32, 20, 9, 55, 61, 21, 16, 16, 38, 62, 26, 41, 1,
        44, 35, 61, 8, 42, 3, 16, 2, 8, 10, 10, 6, 29, 40, 14, 32, 58, 62,
        45, 59, 2, 63, 15, 14, 45, 28, 4, 16, 5, 37, 14, 39, 50, 51, 39, 45,
        23, 16, 43, 27, 17, 33, 48, 0, 9, 2, 24, 26, 10, 7, 32, 46, 5, 15,
        6, 6, 1, 11, 48, 14, 6, 13, 1, 33, 42, 29, 29, 19, 34, 41, 24, 13,
        43, 58, 48, 61, 13, 46, 51, 27, 27, 32, 1, 37, 37, 3, 56, 26, 59,
        33, 37, 11, 58, 6, 42, 51, 30, 23, 1, 33, 61, 58, 7, 39, 23, 18, 44,
        62, 59, 23, 19, 1, 55, 43, 26, 6, 6, 19, 12, 53, 49, 43, 52, 1, 51,
        28, 3, 26, 40, 31, 29, 13, 56, 37, 39, 4, 0, 18, 1, 23, 19, 59, 46,
        4, 14, 48, 31, 12
     >>,
     <<
        15, 37, 34, 8, 23, 58, 38, 30, 40, 37, 4, 38, 0, 58, 53, 30, 16, 35,
        14, 12, 63, 45, 30, 34, 53, 35, 30, 25, 40, 55, 9, 14, 40, 9, 55,
        59, 33, 24, 47, 0, 42, 49, 4, 10, 48, 61, 37, 2, 19, 49, 1, 52, 55,
        17, 30, 38, 46, 58, 56, 24, 45, 50, 58, 27, 25, 46, 51, 36, 28, 61,
        59, 8, 56, 23, 6, 2, 8, 31, 13, 16, 61, 43, 27, 49, 40, 54, 19, 26,
        32, 53, 24, 36, 22, 34, 37, 26, 37, 14, 57, 21, 43, 58, 59, 1, 54,
        17, 63, 38, 42, 44, 10, 44, 55, 20, 61, 34, 57, 36, 36, 6, 45, 41,
        13, 40, 53, 63, 36, 17, 18, 7, 4, 30, 54, 40, 63, 30, 5, 22, 51, 4,
        26, 57, 9, 1, 18, 27, 49, 26, 55, 7, 2, 38, 39, 48, 2, 24, 45, 37,
        21, 35, 56, 59, 62, 17, 32, 15, 63, 2, 19, 0, 4, 6, 38, 34, 2, 60,
        12, 62, 26, 18, 39, 16, 9, 44, 2, 62, 55, 21, 20, 23, 61, 8, 57, 55,
        24, 24, 29, 55, 33, 24, 41, 55, 38, 43, 35, 6, 39, 62, 60, 51, 32,
        17, 27, 40, 46, 45, 15, 59, 19, 27, 62, 16, 33, 19, 35, 21, 0, 50,
        26, 63, 37, 20, 1, 24, 39, 37, 40, 8, 3, 40, 40, 21, 29, 22, 43, 58,
        22, 38, 45, 17, 47, 31, 1, 37, 3, 61, 43, 1, 61, 23, 16, 40, 29, 19,
        37, 38, 20, 11, 23, 11, 20, 48, 23, 54, 38, 16, 19, 50, 24, 6, 49,
        52, 1, 62, 36, 43, 47, 8, 19, 32, 14, 41, 51, 17, 15, 20, 11, 43,
        27, 41, 44, 6, 6, 38, 20, 60, 21, 43, 53, 14, 28, 51, 54, 61, 10, 5,
        21, 47, 41, 13, 56, 36, 28, 17, 14, 50, 7, 2, 33, 61, 12, 20, 51,
        53, 53, 36, 11, 55, 17, 21, 51, 52, 41, 5, 51, 39, 22, 37, 8, 26,
        18, 33, 50, 54, 17, 29, 22, 40, 26, 18, 26, 36, 26, 2, 58, 26, 9,
        12, 0, 30, 60, 53, 56, 39, 63, 32, 27, 35, 60, 63, 59, 45, 14, 2,
        47, 29, 53, 48, 42, 47, 33, 61, 18, 34, 21, 56, 14, 55, 4, 54, 37,
        62, 18, 7, 51, 15, 2, 2, 57, 51, 44, 32, 59, 12, 57, 56, 57, 27, 36,
        3, 0, 30, 47, 7, 10, 32, 19, 15, 42, 1, 33, 34, 26, 3, 60, 58, 39,
        7, 21, 8, 16, 62, 55, 34, 30, 51, 50, 3, 22
     >>,
     <<
        15, 19, 6, 46, 25, 30, 9, 5, 4, 1, 25, 35, 58, 18, 51, 63, 48, 3,
        14, 33, 34, 23, 17, 49, 11, 52, 6, 16, 13, 60, 59, 1, 53, 41, 51,
        16, 51, 17, 12, 10, 19, 18, 40, 55, 46, 61, 54, 54, 56, 23, 5, 54,
        38, 21, 42, 24, 32, 15, 11, 15, 30, 17, 5, 60, 59, 52, 55, 60, 35,
        53, 19, 0, 58, 18, 36, 45, 56, 19, 54, 48, 32, 12, 26, 27, 38, 18,
        27, 28, 10, 14, 19, 16, 52, 51, 2, 5, 2, 29, 40, 63, 17, 33, 34, 41,
        30, 44, 21, 9, 63, 43, 12, 4, 26, 58, 12, 40, 40, 28, 17, 11, 22,
        27, 47, 37, 20, 40, 35, 12, 57, 20, 6, 53, 3, 45, 14, 17, 48, 37,
        39, 55, 15, 7, 21, 59, 11, 18, 29, 1, 2, 22, 44, 5, 57, 61, 61, 18,
        47, 43, 61, 20, 1, 20, 18, 20, 61, 9, 49, 41, 26, 55, 60, 55, 39,
        43, 52, 4, 18, 39, 12, 57, 28, 18, 8, 16, 24, 38, 61, 10, 21, 36, 0,
        23, 2, 29, 10, 23, 50, 51, 23, 63, 18, 36, 6, 28, 62, 13, 27, 58,
        13, 7, 3, 3, 3, 47, 10, 38, 43, 62, 9, 38, 2, 34, 31, 37, 15, 20,
        63, 2, 7, 53, 33, 18, 49, 63, 26, 41, 63, 12, 30, 12, 15, 28, 26,
        31, 2, 14, 26, 28, 15, 41, 56, 27, 53, 13, 31, 12, 2, 2, 16, 16, 15,
        33, 13, 49, 14, 26, 55, 16, 9, 20, 3, 57, 59, 20, 36, 7, 63, 36, 25,
        61, 57, 41, 41, 55, 50, 45, 47, 2, 31, 24, 5, 27, 13, 59, 55, 36,
        57, 60, 59, 10, 21, 18, 42, 30, 51, 57, 41, 20, 52, 26, 33, 13, 41,
        51, 43, 51, 17, 21, 59, 25, 61, 31, 4, 54, 62, 17, 61, 40, 42, 12,
        2, 25, 57, 39, 8, 49, 61, 17, 42, 54, 3, 55, 10, 44, 40, 29, 36, 30,
        47, 25, 59, 24, 13, 51, 0, 13, 59, 10, 0, 39, 56, 16, 7, 25, 51, 49,
        50, 24, 56, 14, 35, 3, 56, 60, 12, 10, 42, 38, 21, 52, 57, 35, 49,
        50, 30, 58, 33, 28, 1, 5, 2, 44, 38, 7, 31, 35, 55, 16, 38, 49, 8,
        2, 23, 5, 49, 56, 33, 57, 0, 19, 53, 22, 52, 4, 5, 61, 34, 29, 24,
        13, 50, 62, 19, 24, 14, 48, 31, 54, 61, 25, 6, 4, 7, 58, 39, 51, 56,
        23, 32, 63, 27, 26, 54, 45, 49, 28, 4, 40, 56, 60, 12
     >>,
     <<
        39, 16, 47, 22, 50, 44, 60, 53, 47, 41, 59, 33, 1, 53, 29, 49, 60,
        15, 41, 3, 57, 10, 7, 23, 30, 55, 15, 24, 34, 6, 36, 15, 0, 46, 13,
        26, 17, 11, 58, 55, 49, 24, 10, 48, 51, 4, 8, 39, 39, 28, 8, 8, 0,
        62, 55, 0, 13, 49, 13, 61, 62, 10, 55, 10, 18, 20, 61, 12, 34, 56,
        43, 40, 13, 11, 60, 61, 44, 12, 61, 61, 57, 24, 19, 1, 23, 26, 10,
        59, 9, 16, 4, 21, 19, 52, 38, 37, 0, 38, 43, 45, 21, 4, 19, 22, 52,
        19, 30, 44, 20, 11, 30, 30, 45, 11, 3, 16, 62, 60, 1, 60, 47, 22,
        54, 25, 1, 35, 50, 26, 23, 24, 37, 53, 0, 28, 2, 45, 11, 39, 61, 61,
        12, 7, 48, 15, 59, 52, 60, 29, 22, 32, 22, 57, 33, 16, 49, 29, 6,
        37, 47, 49, 51, 23, 55, 18, 2, 27, 60, 62, 5, 13, 21, 32, 39, 23,
        58, 9, 21, 17, 59, 44, 34, 5, 19, 43, 20, 19, 11, 51, 5, 40, 9, 46,
        44, 19, 63, 30, 10, 46, 3, 5, 63, 38, 34, 59, 25, 2, 15, 47, 38, 22,
        52, 16, 29, 41, 26, 9, 3, 62, 58, 40, 2, 51, 31, 21, 53, 13, 8, 62,
        46, 36, 60, 8, 40, 57, 50, 26, 6, 10, 27, 23, 9, 3, 54, 26, 18, 9,
        29, 59, 63, 39, 54, 10, 62, 33, 29, 61, 31, 44, 46, 20, 30, 17, 18,
        30, 25, 57, 9, 7, 24, 52, 63, 34, 61, 11, 40, 59, 31, 55, 21, 11, 5,
        31, 17, 32, 50, 35, 55, 32, 23, 4, 50, 50, 49, 22, 44, 37, 42, 2,
        48, 19, 23, 35, 45, 42, 17, 53, 31, 16, 49, 62, 44, 45, 18, 61, 60,
        21, 41, 11, 37, 54, 0, 30, 35, 49, 16, 20, 42, 17, 29, 18, 52, 32,
        41, 43, 51, 22, 22, 17, 41, 22, 47, 60, 53, 26, 22, 59, 53, 11, 55,
        55, 44, 28, 62, 23, 61, 21, 33, 9, 33, 62, 10, 12, 53, 23, 59, 54,
        30, 18, 44, 5, 46, 42, 46, 26, 10, 39, 49, 59, 37, 33, 42, 59, 26,
        19, 39, 35, 49, 55, 40, 17, 46, 63, 1, 12, 10, 37, 28, 39, 41, 11,
        14, 48, 43, 11, 40, 45, 2, 63, 30, 62, 14, 10, 3, 57, 8, 7, 20, 61,
        11, 30, 12, 35, 2, 26, 29, 22, 24, 42, 39, 4, 37, 13, 15, 45, 57,
        23, 0, 22, 25, 60, 17, 54, 26, 55, 7, 44, 53, 35, 23, 61, 2, 35, 39,
        19
     >>,
     <<
        50, 36, 52, 5, 31, 48, 16, 2, 0, 9, 42, 37, 30, 61, 48, 47, 23, 20,
        49, 1, 17, 31, 51, 12, 46, 55, 26, 58, 34, 34, 43, 6, 12, 36, 35,
        44, 51, 46, 16, 42, 51, 39, 43, 5, 54, 27, 21, 63, 5, 23, 51, 26,
        51, 16, 28, 44, 6, 48, 12, 44, 40, 50, 18, 6, 60, 2, 37, 57, 12, 52,
        41, 58, 23, 31, 59, 53, 58, 12, 32, 36, 41, 62, 44, 57, 51, 32, 62,
        58, 1, 40, 23, 15, 38, 27, 19, 22, 37, 7, 5, 32, 56, 43, 33, 12, 7,
        38, 42, 17, 19, 46, 12, 24, 30, 14, 8, 38, 13, 53, 55, 56, 44, 33,
        0, 12, 49, 10, 1, 41, 21, 35, 57, 42, 39, 39, 19, 23, 24, 33, 24,
        18, 8, 43, 63, 31, 3, 11, 27, 38, 47, 63, 25, 6, 62, 28, 15, 51, 62,
        5, 57, 38, 42, 55, 56, 28, 28, 50, 53, 24, 50, 4, 33, 27, 30, 19,
        45, 52, 26, 60, 5, 12, 47, 43, 17, 28, 31, 46, 50, 61, 11, 1, 1, 34,
        7, 16, 37, 51, 23, 12, 16, 32, 28, 21, 59, 33, 16, 62, 26, 59, 56,
        26, 39, 31, 17, 38, 30, 42, 30, 31, 9, 46, 24, 31, 19, 40, 51, 29,
        20, 23, 42, 10, 62, 58, 59, 39, 24, 44, 38, 17, 20, 41, 25, 62, 31,
        46, 50, 10, 59, 52, 18, 35, 0, 39, 28, 61, 3, 11, 1, 39, 49, 36, 7,
        43, 45, 23, 23, 62, 60, 31, 54, 37, 3, 58, 12, 9, 60, 17, 39, 0, 27,
        51, 50, 51, 52, 33, 31, 4, 30, 14, 6, 23, 23, 61, 9, 43, 40, 15, 38,
        20, 9, 2, 40, 42, 6, 45, 6, 2, 41, 30, 29, 46, 57, 4, 40, 1, 44, 35,
        8, 39, 53, 59, 5, 10, 39, 40, 58, 16, 58, 53, 57, 41, 28, 31, 44, 1,
        50, 40, 8, 52, 60, 12, 58, 59, 28, 30, 49, 28, 28, 35, 17, 30, 45,
        37, 4, 53, 51, 18, 62, 23, 18, 23, 60, 2, 5, 32, 54, 17, 17, 17, 61,
        30, 27, 28, 59, 23, 2, 45, 5, 15, 52, 38, 40, 15, 34, 47, 2, 47, 11,
        21, 23, 2, 3, 60, 63, 47, 48, 48, 60, 13, 44, 27, 21, 56, 4, 10, 46,
        43, 7, 25, 35, 8, 29, 47, 31, 40, 4, 8, 4, 22, 33, 62, 1, 11, 33,
        45, 9, 11, 18, 47, 9, 32, 36, 54, 24, 50, 14, 60, 14, 44, 36, 45,
        58, 8, 26, 44, 10
     >>,
     <<
        20, 60, 9, 25, 41, 3, 4, 52, 34, 6, 23, 37, 3, 58, 32, 13, 2, 5, 27,
        26, 4, 15, 5, 35, 27, 3, 52, 36, 7, 60, 14, 40, 40, 37, 60, 3, 36,
        37, 25, 3, 62, 14, 2, 35, 54, 8, 18, 26, 9, 34, 7, 36, 19, 35, 52,
        43, 11, 6, 37, 36, 40, 12, 23, 6, 35, 45, 4, 36, 3, 39, 13, 31, 43,
        34, 27, 49, 20, 29, 37, 59, 29, 23, 19, 15, 50, 11, 44, 49, 15, 5,
        36, 19, 33, 31, 56, 21, 46, 28, 18, 38, 62, 4, 7, 32, 26, 10, 48,
        21, 9, 59, 31, 26, 2, 61, 42, 4, 48, 35, 36, 50, 56, 52, 20, 21, 44,
        22, 38, 31, 37, 51, 29, 4, 53, 5, 60, 17, 30, 44, 42, 4, 3, 46, 44,
        19, 41, 36, 63, 43, 52, 28, 18, 45, 24, 56, 42, 22, 1, 60, 29, 22,
        10, 39, 7, 31, 3, 13, 49, 18, 8, 47, 15, 25, 25, 58, 55, 31, 5, 10,
        28, 25, 35, 17, 56, 8, 52, 27, 55, 35, 17, 45, 26, 63, 22, 43, 56,
        24, 61, 14, 9, 5, 11, 9, 14, 42, 14, 0, 31, 53, 37, 11, 16, 18, 0,
        9, 26, 34, 23, 39, 36, 20, 60, 8, 44, 54, 32, 60, 39, 41, 43, 47, 3,
        29, 57, 55, 49, 60, 55, 43, 51, 35, 25, 25, 25, 25, 6, 30, 40, 25,
        3, 12, 4, 63, 13, 28, 10, 7, 21, 38, 3, 6, 0, 36, 9, 34, 6, 60, 23,
        39, 1, 4, 55, 13, 39, 24, 9, 40, 16, 61, 22, 38, 23, 30, 7, 7, 54,
        31, 63, 62, 29, 30, 30, 19, 5, 9, 6, 47, 21, 47, 16, 30, 53, 44, 10,
        33, 1, 13, 60, 60, 33, 23, 9, 44, 34, 58, 1, 48, 33, 19, 62, 41, 55,
        5, 44, 54, 16, 33, 23, 58, 10, 22, 49, 14, 34, 34, 49, 32, 21, 40,
        14, 39, 51, 50, 63, 48, 54, 12, 51, 15, 52, 25, 47, 51, 14, 12, 33,
        31, 22, 46, 1, 63, 1, 50, 17, 30, 16, 12, 44, 38, 61, 22, 28, 51,
        59, 46, 63, 22, 61, 62, 23, 5, 14, 6, 14, 30, 12, 21, 13, 30, 39,
        63, 57, 39, 53, 0, 30, 58, 41, 22, 51, 41, 5, 53, 42, 7, 58, 24, 50,
        45, 48, 12, 30, 56, 11, 27, 50, 40, 21, 5, 51, 60, 62, 46, 25
     >>,
     <<
        14, 23, 61, 24, 8, 12, 45, 2, 5, 8, 15, 51, 63, 32, 13, 25, 41, 1,
        29, 31, 29, 24, 31, 36, 12, 57, 53, 25, 5, 31, 14, 48, 1, 44, 17,
        33, 26, 30, 57, 58, 24, 46, 7, 42, 16, 6, 63, 52, 4, 24, 39, 53, 24,
        6, 42, 3, 21, 15, 44, 5, 31, 57, 41, 33, 57, 13, 37, 51, 9, 38, 4,
        34, 60, 2, 31, 44, 12, 9, 60, 55, 37, 29, 46, 37, 56, 28, 18, 35,
        22, 54, 56, 27, 8, 10, 48, 38, 6, 34, 44, 20, 44, 22, 60, 41, 53,
        31, 32, 39, 12, 19, 9, 22, 33, 18, 32, 42, 4, 51, 57, 54, 32, 58,
        44, 34, 14, 22, 15, 58, 0, 18, 21, 14, 17, 2, 27, 16, 24, 19, 53,
        45, 57, 26, 11, 42, 25, 7, 10, 59, 42, 54, 62, 1, 12, 62, 49, 10,
        19, 7, 0, 50, 48, 24, 21, 53, 10, 36, 27, 57, 14, 8, 26, 36, 28, 26,
        26, 5, 37, 4, 18, 45, 6, 2, 5, 42, 6, 48, 33, 33, 23, 9, 51, 59, 32,
        31, 45, 9, 62, 38, 4, 12, 1, 58, 8, 21, 24, 42, 36, 7, 47, 19, 22,
        20, 61, 23, 0, 41, 53, 31, 13, 3, 56, 39, 2, 56, 61, 55, 48, 51, 63,
        52, 37, 11, 11, 21, 62, 27, 28, 7, 5, 12, 38, 14, 31, 51, 30, 50, 9,
        24, 7, 6, 37, 46, 28, 41, 8, 46, 28, 32, 46, 5, 45, 59, 30, 36, 25,
        52, 23, 29, 14, 3, 12, 3, 28, 7, 6, 13, 46, 0, 45, 38, 39, 58, 1,
        41, 23, 53, 27, 33, 5, 62, 61, 47, 48, 38, 32, 52, 45, 36, 12, 32,
        14, 20, 33, 24, 47, 33, 41, 12, 0, 18, 39, 18, 58, 5, 47, 20, 59,
        58, 62, 25, 14, 40, 18, 5, 35, 26, 62, 47, 23, 51, 60, 47, 54, 20,
        33, 19, 40, 53, 61, 22, 50, 57, 18, 41, 54, 6, 12, 31, 23, 24, 61,
        37, 54, 58, 19, 13, 18, 25, 39, 24, 53, 58, 43, 33, 59, 44, 46, 22,
        52, 43, 38, 37, 23, 43, 27, 12, 31, 52, 33, 32, 53, 5, 17, 10, 4,
        31, 46, 55, 17, 63, 26, 49, 7, 39, 53, 52, 17, 63, 18, 17, 51, 52,
        32, 17, 17, 63, 56, 40, 26, 15, 23, 15, 61, 15, 50, 32, 47, 29, 15,
        14, 52, 51, 38, 33, 53, 12, 23, 31
     >>,
     <<
        29, 39, 23, 17, 8, 11, 55, 43, 0, 21, 32, 29, 57, 38, 5, 21, 35, 59,
        39, 44, 2, 46, 24, 10, 45, 60, 28, 60, 46, 27, 10, 10, 15, 3, 7, 8,
        32, 55, 59, 63, 37, 4, 49, 44, 24, 50, 47, 56, 6, 58, 18, 13, 43,
        14, 46, 50, 26, 56, 5, 49, 17, 58, 13, 25, 17, 21, 51, 2, 12, 45,
        56, 0, 56, 26, 3, 57, 24, 54, 31, 8, 1, 15, 27, 47, 58, 54, 7, 61,
        38, 0, 7, 48, 37, 12, 57, 54, 12, 21, 0, 57, 5, 8, 34, 58, 1, 32, 5,
        36, 31, 34, 58, 12, 26, 4, 25, 12, 40, 48, 5, 44, 37, 9, 11, 60, 38,
        46, 61, 2, 3, 17, 35, 43, 38, 54, 9, 47, 17, 47, 63, 36, 63, 2, 7,
        55, 45, 25, 60, 57, 15, 10, 39, 32, 2, 47, 23, 54, 43, 33, 37, 36,
        49, 44, 5, 55, 22, 7, 55, 56, 37, 23, 28, 13, 25, 12, 63, 60, 36,
        47, 1, 24, 51, 38, 21, 0, 27, 7, 13, 14, 28, 17, 20, 52, 5, 19, 40,
        18, 6, 33, 50, 3, 1, 24, 49, 35, 51, 27, 31, 22, 45, 49, 15, 36, 47,
        4, 27, 41, 14, 6, 61, 48, 25, 32, 23, 61, 55, 35, 23, 8, 42, 18, 10,
        44, 53, 56, 16, 1, 3, 60, 62, 51, 11, 16, 60, 10, 63, 7, 38, 9, 0,
        3, 3, 28, 13, 50, 24, 18, 39, 0, 61, 51, 22, 18, 9, 30, 35, 17, 8,
        61, 5, 47, 35, 18, 44, 7, 4, 26, 28, 9, 45, 35, 48, 50, 24, 37, 56,
        51, 10, 42, 45, 17, 49, 38, 56, 38, 31, 22, 6, 59, 3, 17, 33, 8, 11,
        51, 40, 52, 5, 10, 49, 50, 14, 54, 0, 12, 11, 30, 29, 37, 35, 34,
        24, 5, 11, 35, 30, 37, 60, 16, 34, 4, 60, 41, 1, 37, 63, 37, 56, 27,
        34, 19, 33, 33, 34, 41, 58, 50, 4, 56, 41, 36, 34, 61, 19, 4, 46,
        14, 46, 8, 6, 6, 44, 31, 29, 3, 31, 56, 40, 46, 3, 43, 38, 1, 23,
        15, 56, 29, 14, 23, 52, 61, 46, 36, 39, 31, 56, 15, 2, 39, 38, 5,
        39, 3, 43, 26, 26, 37, 4, 5, 12, 2, 38, 48, 11, 5, 4, 1, 22, 39, 30,
        35, 34, 30, 1, 45, 49, 4, 21, 5, 50, 20, 0, 29, 61, 28, 37, 9, 62,
        24, 63, 30
     >>
    >>

\* int.bit_length
RECURSIVE BitLength(_)
BitLength(n) == IF n = 0 THEN 0 ELSE 1 + BitLength(n \div 2)

\* getrandbits(k), k <= 6: the top k bits of the next output
getrandbits(g, k) == GeneratorBits[g.seed + 1][g.pos + 1] \div (2 ^ (6 - k))

\* Random._randbelow_with_getrandbits: outputs of n.bit_length() bits are
\* drawn until one is below n; the number (r) and the generator left (gen)
RECURSIVE randbelow(_, _)
randbelow(g, n) ==
    LET r == getrandbits(g, BitLength(n))
        next == [g EXCEPT !.pos = @ + 1]
    IN IF r < n THEN [r |-> r, gen |-> next] ELSE randbelow(next, n)

\* x[i], x[j] = x[j], x[i], on positions counted from 1
Swap(x, i, j) == [x EXCEPT ![i] = x[j], ![j] = x[i]]

\* the loop of Random.shuffle over reversed(range(1, len(x))), from index i
\* (counted from 0) on; the list and the generator a pass starts from are
\* bound, so that each is evaluated once
RECURSIVE shuffleFrom(_, _, _)
shuffleFrom(x, g, i) ==
    CHOOSE left \in
        {IF i \notin 1..(Len(list) - 1) THEN [x |-> list, gen |-> from]
         ELSE LET drawn == randbelow(from, i + 1)
              IN shuffleFrom(Swap(list, i + 1, drawn.r + 1), drawn.gen, i - 1) :
             list \in {x}, from \in {g}} : TRUE

\* random.shuffle(d) with the generator in state g: the list it leaves
Shuffled(d, g) == shuffleFrom(d, g, Len(d) - 1).x
\* and the generator it leaves
AfterShuffle(d, g) == [shuffleFrom(d, g, Len(d) - 1).gen EXCEPT !.used = @ + 1]

\* shuffleDeck; random.shuffle(None) is a TypeError
shuffleDeck(s, g) ==
    IF s.deckNone THEN raise(s, "TypeError")
    ELSE [s EXCEPT !.deck = Shuffled(s.deck, g)]

\* the generator after the shuffle of a newly created deck
Advance(g) == AfterShuffle(DeckFrom(1), g)

\* dealHands, from its k-th drawCard on (k counts from 0); the object a
\* drawCard starts from is bound, so that it is evaluated once
RECURSIVE dealFrom(_, _)
dealFrom(s, k) ==
    CHOOSE dealt \in
        {IF k >= obj.handSize * obj.nPlayers \/ obj.exc # NoExc THEN obj
         ELSE dealFrom(drawCard(obj, k % obj.nPlayers), k + 1) :
             obj \in {s}} : TRUE

dealHands(s) == dealFrom(s, 0)

setup(s, g) ==
    LET decked == IF s.deckNone THEN shuffleDeck(createDeck(s), g) ELSE s
    IN dealHands([decked EXCEPT !.hands = [p \in 0..(s.nPlayers - 1) |-> <<>>]])

reset(s) ==
    DiscardPile_setup(
        [s EXCEPT !.nHints = 8,
                  !.strikes = 0,
                  !.turn = 0,
                  !.playerTurn = 0,
                  !.turnAfterEmpty = s.nPlayers,
                  !.deckNone = TRUE,
                  !.deck = <<>>,
                  !.score = 0,
                  !.moveHistory = <<>>,
                  !.hands = [p \in 0..(s.nPlayers - 1) |-> <<>>],
                  !.fireworks = NewFireworks,
                  !.isOver = FALSE])

isUseless(s, card) == card \in s.playedCards \/ card \in s.deadCards

isCritical(s, card) == card \in Range(getCriticalCards(s))

\* the list of firework.getNextCard() over self.fireworks, whose keys were
\* inserted in the order of COLOURS
getPlayableCards(s) == [i \in 1..Len(COLOURS) |-> getNextCard(s, COLOURS[i])]

\* score + len(deck) + nPlayers - getMaxScore(); of an object that has a deck
\* (len(None) is a TypeError before the first setup())
computePace(s) == s.score + Len(s.deck) + s.nPlayers - getMaxScore(s)

(***************************************************************************)
(* The engine variant of src/hanabi_sim/hanasim.py.  Its GameState has the *)
(* fields of the one above except deadCards, total and playedCards; the    *)
(* dict self.discarded (card -> copies discarded) is the field cardCounts  *)
(* of the record, a function whose domain is the keys of the dict.  Card   *)
(* has asString here; Firework and addHint read as in src/hanasim.         *)
(***************************************************************************)
\* GameState.__init__: self.discarded = {}
hanabi_sim_GameState(nPlayers, handSize, deckNone, deck) ==
    [GameState(nPlayers, handSize, deckNone, deck) EXCEPT
        !.cardCounts = [c \in {} |-> 0]]

hanabi_sim_drawCard(s, playerID) ==
    IF ~(Len(s.hands[playerID]) < s.handSize)
    THEN raise(s, "AssertionError")
    ELSE IF deckTruthy(s)
         THEN [s EXCEPT !.deck = Front(@),
                        !.hands[playerID] = Append(@, Last(s.deck))]
         ELSE s

hanabi_sim_forcedDiscard(s, playerID, index) ==
    LET hand == s.hands[playerID]
        k == PyPos(Len(hand), index)
        card == hand[k]
        counted == [c \in DOMAIN s.cardCounts \cup {card} |->
                       IF c # card THEN s.cardCounts[c]
                       ELSE IF card \in DOMAIN s.cardCounts
                            THEN s.cardCounts[card] + 1
                            ELSE 1]
    IN IF ~PyValid(Len(hand), index)
       THEN raise(s, "IndexError")
       ELSE hanabi_sim_drawCard(
                [s EXCEPT !.hands[playerID] = RemoveAt(hand, k),
                          !.cardCounts = counted],
                playerID)

\* the token is added before the card is taken from the hand
hanabi_sim_discard(s, playerID, index) ==
    hanabi_sim_forcedDiscard(addHint(s), playerID, index)

hanabi_sim_playCard(s, playerID, idx, colour) ==
    LET hand == s.hands[playerID]
        k == PyPos(Len(hand), idx)
    IN IF ~(idx < Len(hand))
       THEN raise(s, "AssertionError")
       ELSE IF ~PyValid(Len(hand), idx)
       THEN raise(s, "IndexError")
       ELSE LET card == hand[k]
            IN IF addCardOk(s, colour, card)
               THEN LET drawn == hanabi_sim_drawCard(
                                     [addCard(s, colour, card) EXCEPT
                                         !.hands[playerID] = RemoveAt(hand, k)],
                                     playerID)
                    IN IF Raised(drawn) THEN drawn
                       ELSE playedHint([drawn EXCEPT !.score = @ + 1], card)
               ELSE hanabi_sim_forcedDiscard([s EXCEPT !.strikes = @ + 1],
                                             playerID, idx)

\* the part of doMove after the move is resolved (lines 227-240)
hanabi_sim_endOfMove(s, move) ==
    LET t == [s EXCEPT !.moveHistory = Append(@, move),
                       !.turn = @ + 1,
                       !.playerTurn = (s.turn + 1) % s.nPlayers]
    IN IF t.strikes > 2
       THEN [t EXCEPT !.isOver = TRUE]
       ELSE LET u == IF ~deckTruthy(t)
                     THEN [t EXCEPT !.turnAfterEmpty = @ - 1]
                     ELSE t
            IN IF u.turnAfterEmpty = 0 THEN [u EXCEPT !.isOver = TRUE] ELSE u

\* the HINT branch is a pass statement
hanabi_sim_doMove(s, move) ==
    IF move.playerID # s.playerTurn
    THEN raise(s, "ValueError")
    ELSE LET resolved ==
                 CASE move.moveType = "DISCARD" ->
                        hanabi_sim_discard(s, move.playerID, move.index)
                   [] move.moveType = "PLAY" ->
                        hanabi_sim_playCard(s, move.playerID, move.index,
                                            move.colour)
                   [] move.moveType = "HINT" -> s
                   [] OTHER -> raise(s, "ValueError")
         IN IF Raised(resolved) THEN resolved
            ELSE hanabi_sim_endOfMove(resolved, move)

\* every card of the 25 is given the count 0
hanabi_sim_setupDiscardedPile(s) ==
    [s EXCEPT !.cardCounts = [c \in Cards |-> 0]]

\* reset: self.discarded = {}
hanabi_sim_reset(s) ==
    [s EXCEPT !.nHints = 8,
              !.strikes = 0,
              !.turn = 0,
              !.playerTurn = 0,
              !.turnAfterEmpty = s.nPlayers,
              !.deckNone = TRUE,
              !.deck = <<>>,
              !.score = 0,
              !.moveHistory = <<>>,
              !.hands = [p \in 0..(s.nPlayers - 1) |-> <<>>],
              !.cardCounts = [c \in {} |-> 0],
              !.fireworks = NewFireworks,
              !.isOver = FALSE]

\* dealHands, from its k-th drawCard on (k counts from 0)
RECURSIVE hanabi_sim_dealFrom(_, _)
hanabi_sim_dealFrom(s, k) ==
    IF k >= s.handSize * s.nPlayers \/ s.exc # NoExc THEN s
    ELSE hanabi_sim_dealFrom(hanabi_sim_drawCard(s, k % s.nPlayers), k + 1)

hanabi_sim_dealHands(s) == hanabi_sim_dealFrom(s, 0)

hanabi_sim_setup(s, g) ==
    LET decked == IF s.deckNone THEN shuffleDeck(createDeck(s), g) ELSE s
    IN hanabi_sim_dealHands(
           [hanabi_sim_setupDiscardedPile(decked) EXCEPT
               !.hands = [p \in 0..(s.nPlayers - 1) |-> <<>>]])

(***************************************************************************)
(* The state: the fields of one GameState object.  Whether a call raised   *)
(* is the field exc of the record the call's operator returns; the object  *)
(* keeps what the call did before it raised.                               *)
(***************************************************************************)
VARIABLES isOver, nHints, strikes, score, turn, playerTurn, turnAfterEmpty,
          nPlayers, handSize, deckNone, deck, moveHistory, hands,
          cardCounts, deadCards, total, playedCards, fireworks,
          seed,   \* the seed argument the object was constructed with
          rng,    \* the generator of module random, shared by all objects
          proc,   \* the process of src/main.py: where it is and what it counts
          calls   \* the calls made on the object by a driver that limits them

vars == <<isOver, nHints, strikes, score, turn, playerTurn, turnAfterEmpty,
          nPlayers, handSize, deckNone, deck, moveHistory, hands,
          cardCounts, deadCards, total, playedCards, fireworks, seed, rng,
          proc, calls>>

\* the object as a record, at the start of a call
Self ==
    [isOver |-> isOver, nHints |-> nHints, strikes |-> strikes, score |-> score,
     turn |-> turn, playerTurn |-> playerTurn, turnAfterEmpty |-> turnAfterEmpty,
     nPlayers |-> nPlayers, handSize |-> handSize, deckNone |-> deckNone,
     deck |-> deck, moveHistory |-> moveHistory, hands |-> hands,
     cardCounts |-> cardCounts, deadCards |-> deadCards, total |-> total,
     playedCards |-> playedCards, fireworks |-> fireworks, exc |-> NoExc]

\* the object after a call that left it as record r
Becomes(r) ==
    /\ isOver' = r.isOver
    /\ nHints' = r.nHints
    /\ strikes' = r.strikes
    /\ score' = r.score
    /\ turn' = r.turn
    /\ playerTurn' = r.playerTurn
    /\ turnAfterEmpty' = r.turnAfterEmpty
    /\ nPlayers' = r.nPlayers
    /\ handSize' = r.handSize
    /\ deckNone' = r.deckNone
    /\ deck' = r.deck
    /\ moveHistory' = r.moveHistory
    /\ hands' = r.hands
    /\ cardCounts' = r.cardCounts
    /\ deadCards' = r.deadCards
    /\ total' = r.total
    /\ playedCards' = r.playedCards
    /\ fireworks' = r.fireworks

\* what the bounds of the model let a call leave behind
DeckBound(r) == Len(r.deck) > RunLen => Len(r.deck) >= TOTALCARDS - MaxDrawn
GameBound(r) == DeckBound(r) /\ r.strikes <= StrikeCap

(***************************************************************************)
(* Inputs                                                                  *)
(***************************************************************************)
PlayerCounts == MINPLAYERS..MaxPlayersModel
Seeds == 0..(NumShuffles - 1)
\* the seeds of the games dealt from a generated deck; with seed 7 the card
\* dealt first is playable (B1), with the others it is not
DealSeeds == 0..(DealShuffles - 1)
Indices == (0 - NegIndex)..MaxIndex

\* the cards of the small supplied decks: a playable card, its successor and
\* a playable card of another colour
DeckCards == {Card("R", 1), Card("R", 2), Card("G", 1)}
SmallDecks == UNION {[1..n -> DeckCards] : n \in 0..MaxDeck}
\* the cards handed to the methods that take a card: those, and a card
\* that has one copy
OpenCards == DeckCards \cup {Card("G", 5)}

\* the n-th card of the run R1 .. R5 G1 .. G5 B1 .. P5 R1 ..
NthCard(n) == Card(COLOURS[(((n - 1) \div Len(VALUES)) % Len(COLOURS)) + 1],
                   VALUES[((n - 1) % Len(VALUES)) + 1])
\* the deck whose draws (pops from the end) come in the order 1st, 2nd, ... n-th
RunDeck(n) == [i \in 1..n |-> NthCard(n + 1 - i)]

SuppliedDecks == SmallDecks \cup {RunDeck(n) : n \in 0..OpenRun}
\* a supplied deck with one red 5 too many: the draws are R1 .. R5, R5
SurplusDeck == <<NthCard(Len(VALUES))>> \o RunDeck(Len(VALUES))
GameDecks == SmallDecks \cup {RunDeck(RunLen)}

DiscardMove(p, i) ==
    [playerID |-> p, moveType |-> "DISCARD", index |-> i, colour |-> "-",
     hintTo |-> 0, hintValue |-> 0]
PlayMove(p, i, c) ==
    [playerID |-> p, moveType |-> "PLAY", index |-> i, colour |-> c,
     hintTo |-> 0, hintValue |-> 0]
\* a hint of rank 1 that player p gives to player p
SelfHintMove(p) ==
    [playerID |-> p, moveType |-> "HINT", index |-> 0, colour |-> "-",
     hintTo |-> p, hintValue |-> 1]
\* the throw-away hint of the agents: rank 1 to the next player
HintMove(p, n) ==
    [playerID |-> p, moveType |-> "HINT", index |-> 0, colour |-> "-",
     hintTo |-> (p + 1) % n, hintValue |-> 1]

\* Move(p, 'HINT', Hint(t, v)): a hint of the colour or rank v to player t
AttributeHint(p, t, v) ==
    [playerID |-> p, moveType |-> "HINT", index |-> 0, colour |-> "-",
     hintTo |-> t, hintValue |-> v]

Players == 0..(nPlayers - 1)

(***************************************************************************)
(* The agents of src/agents.  findMove is an operator from the game record *)
(* to a record of the move found (move), the object as the search left it  *)
(* (obj) and the exception the search raised (exc).                        *)
(***************************************************************************)
NoMove == [playerID |-> 0, moveType |-> "-", index |-> 0, colour |-> "-",
           hintTo |-> 0, hintValue |-> 0]
Found(s, move) == [obj |-> s, move |-> move, exc |-> NoExc]
NotFound(s, e) == [obj |-> s, move |-> NoMove, exc |-> e]

\* the least member of a non-empty set of numbers
Least(S) == CHOOSE k \in S : \A j \in S : k <= j

\* list.index(x): the index, from 0, of the first element equal to x
list_index(list, x) == Least({k \in 1..Len(list) : list[k] = x}) - 1

\* min(cards) and max(cards): Card.__lt__ and Card.__gt__ compare the values
\* alone, and the first card of the least (greatest) value is kept
min_card(list) ==
    list[Least({k \in 1..Len(list) :
                    \A j \in 1..Len(list) : list[k].value <= list[j].value})]
max_card(list) ==
    list[Least({k \in 1..Len(list) :
                    \A j \in 1..Len(list) : list[k].value >= list[j].value})]

\* Agent.findMove of cheater.py and of cheater_discard_first.py (the same
\* code): the first colour whose next card is in the hand is played, else
\* the first card is discarded
cheater_findMove(s, playerID) ==
    LET hand == s.hands[playerID]
        held == {i \in 1..Len(COLOURS) :
                     getNextCard(s, COLOURS[i]) \in Range(hand)}
        colour == COLOURS[Least(held)]
    IN IF held # {}
       THEN Found(s, PlayMove(playerID,
                              list_index(hand, getNextCard(s, colour)), colour))
       ELSE Found(s, DiscardMove(playerID, 0))

\* Agent.findMove of cheat_tobin.py: the smallest playable card of the hand
\* is played; without one, findDeadCard calls self.game.getUsedCards(), a
\* method GameState does not have
cheat_tobin_findMove(s, playerID) ==
    LET myHand == s.hands[playerID]
        legalCards == Range(getPlayableCards(s))
        legal(card) == card \in legalCards
        playableCards == SelectSeq(myHand, legal)
        bestCard == min_card(playableCards)
    IN IF playableCards # <<>>
       THEN Found(s, PlayMove(playerID, list_index(myHand, bestCard),
                              bestCard.colour))
       ELSE NotFound(s, "AttributeError")

\* cheater_smart.py
computeCardScore(s, card) ==
    IF isUseless(s, card) THEN 0
    ELSE IF isCritical(s, card) THEN 10 - card.value
    ELSE 1

RECURSIVE computeHandScore(_, _)
computeHandScore(s, hand) ==
    IF hand = <<>> THEN 0
    ELSE computeCardScore(s, Head(hand)) + computeHandScore(s, Tail(hand))

\* the loop returns 10 - value at the first other player who holds the card
\* in a hand worth less than one's own; its else branch runs whenever the
\* loop ends without that return
computeCardPlayScore(s, playerID, card) ==
    IF \E q \in (0..(s.nPlayers - 1)) \ {playerID} :
           /\ card \in Range(s.hands[q])
           /\ computeHandScore(s, s.hands[q])
                  < computeHandScore(s, s.hands[playerID])
    THEN 10 - card.value
    ELSE 20 - card.value

\* the list comprehension of findDiscard from the k-th card of the hand on:
\* computeMaxAfterDiscard for each card in turn, on the one pile of the game
RECURSIVE discardScores(_, _, _)
discardScores(s, hand, k) ==
    IF k > Len(hand) THEN [obj |-> s, ret |-> <<>>]
    ELSE LET one == computeMaxAfterDiscard(s, hand[k])
             rest == discardScores(one.obj, hand, k + 1)
         IN [obj |-> rest.obj, ret |-> <<one.ret>> \o rest.ret]

\* findDiscard: scores.index(max(scores)); max of an empty list is a
\* ValueError
findDiscard(s, playerID) ==
    LET scored == discardScores(s, s.hands[playerID], 1)
        scores == scored.ret
        best == Least({k \in 1..Len(scores) :
                           \A j \in 1..Len(scores) : scores[k] >= scores[j]})
    IN IF scores = <<>>
       THEN [obj |-> scored.obj, ret |-> 0, exc |-> "ValueError"]
       ELSE [obj |-> scored.obj, ret |-> best - 1, exc |-> NoExc]

\* Agent.findMove of cheater_smart.py; self.hand is the list
\* game.hands[playerID] the agent was constructed on
cheater_smart_findMove(s, playerID) ==
    LET hand == s.hands[playerID]
        positions == 1..Len(hand)
        playableCards == Range(getPlayableCards(s))
        playable(card) == card \in playableCards
        playableHand == SelectSeq(hand, playable)
        playScore(k) == computeCardPlayScore(s, playerID, playableHand[k])
        bestCard ==
            playableHand[Least({k \in 1..Len(playableHand) :
                                    \A j \in 1..Len(playableHand) :
                                        playScore(k) >= playScore(j)})]
        discardThreshold == TOTALCARDS - Len(COLOURS) * Len(VALUES)
                                - s.handSize * s.nPlayers
        gone == {k \in positions :
                     hand[k] \in s.deadCards \/ hand[k] \in s.playedCards}
        twice == {k \in positions :
                      \E j \in positions : j # k /\ hand[j] = hand[k]}
        otherPlayerHands ==
            UNION {Range(s.hands[i]) : i \in (0..(s.nPlayers - 1)) \ {playerID}}
        shared == {k \in positions : hand[k] \in otherPlayerHands}
        criticalCards == Range(getCriticalCards(s))
        spare(card) == card \notin criticalCards
        dispensableCards == SelectSeq(hand, spare)
        last == findDiscard(s, playerID)
    IN IF playableHand # <<>>
       THEN Found(s, PlayMove(playerID, list_index(hand, bestCard),
                              bestCard.colour))
       ELSE IF s.total < discardThreshold /\ gone # {}
       THEN Found(s, DiscardMove(playerID, Least(gone) - 1))
       ELSE IF s.nHints > 0
       THEN Found(s, HintMove(playerID, s.nPlayers))
       ELSE IF gone # {}
       THEN Found(s, DiscardMove(playerID, Least(gone) - 1))
       ELSE IF twice # {}
       THEN Found(s, DiscardMove(playerID, Least(twice) - 1))
       ELSE IF shared # {}
       THEN Found(s, DiscardMove(playerID, Least(shared) - 1))
       ELSE IF dispensableCards # <<>>
       THEN Found(s, DiscardMove(playerID,
                                 list_index(hand, max_card(dispensableCards))))
       ELSE IF last.exc # NoExc
       THEN NotFound(last.obj, last.exc)
       ELSE Found(last.obj, DiscardMove(playerID, last.ret))

\* the agent modules src/main.py imports, or has imported in its comments
Agents == {"cheater", "cheater_discard_first", "cheater_smart", "cheat_tobin"}

\* players[turn].findMove() for the agent module imported
findMove(agent, s, playerID) ==
    CASE agent = "cheat_tobin" -> cheat_tobin_findMove(s, playerID)
      [] agent = "cheater_smart" -> cheater_smart_findMove(s, playerID)
      [] OTHER -> cheater_findMove(s, playerID)

(***************************************************************************)
(* Actions: one per call a driver makes on the object                      *)
(***************************************************************************)
\* the object is the record r
Is(r) ==
    /\ isOver = r.isOver
    /\ nHints = r.nHints
    /\ strikes = r.strikes
    /\ score = r.score
    /\ turn = r.turn
    /\ playerTurn = r.playerTurn
    /\ turnAfterEmpty = r.turnAfterEmpty
    /\ nPlayers = r.nPlayers
    /\ handSize = r.handSize
    /\ deckNone = r.deckNone
    /\ deck = r.deck
    /\ moveHistory = r.moveHistory
    /\ hands = r.hands
    /\ cardCounts = r.cardCounts
    /\ deadCards = r.deadCards
    /\ total = r.total
    /\ playedCards = r.playedCards
    /\ fireworks = r.fireworks

\* GameState(nPlayers, handSize, seed, deck): deck is None or a supplied list;
\* the constructor seeds the generator (seed defaults to 0)
Constructed(n, sd, none, d) ==
    /\ Is(GameState(n, HANDSIZE[n], none, d))
    /\ seed = sd
    /\ rng = Seeded(sd)

\* the object is driven by a caller other than the process of src/main.py
NoProcess == [pc |-> "-", agent |-> "-", ply |-> 0, game |-> 0]

Init ==
    /\ \E n \in PlayerCounts :
           \/ \E d \in SuppliedDecks : Constructed(n, 0, FALSE, d)
           \/ \E sd \in Seeds : Constructed(n, sd, TRUE, <<>>)
    /\ proc = NoProcess
    /\ calls = 0

\* one more call, of the most the driver makes
Called(most) == calls < most /\ calls' = calls + 1

\* setup() shuffles, and so moves the generator on, when it creates the deck
AfterSetup(g, none) == IF none THEN Advance(g) ELSE g

\* a driver that constructs the object and then calls, in any order, the
\* methods that change it: those of GameState, those of its DiscardPile and
\* Firework objects, and those of the agent of src/agents/cheater_smart.py
\* that try discards on the pile; OpenCalls calls are made at most
AnySetup ==
    /\ Called(OpenCalls)
    /\ deckNone => rng.used < MaxShuffled
    /\ Becomes(setup(Self, rng))
    /\ rng' = AfterSetup(rng, deckNone)
    /\ UNCHANGED <<seed, proc>>

AnyReset ==
    /\ Called(OpenCalls)
    /\ Becomes(reset(Self))
    /\ UNCHANGED <<seed, rng, proc>>

AnyDrawCard ==
    /\ Called(OpenCalls)
    /\ \E p \in Players :
           Becomes(drawCard(Self, p))
    /\ UNCHANGED <<seed, rng, proc>>

AnyDiscard ==
    /\ Called(OpenCalls)
    /\ \E p \in Players, i \in Indices :
           Becomes(doMove(Self, DiscardMove(p, i)))
    /\ UNCHANGED <<seed, rng, proc>>

AnyPlay ==
    /\ Called(OpenCalls)
    /\ \E p \in Players, i \in Indices, c \in ColourSet :
           Becomes(doMove(Self, PlayMove(p, i, c)))
    /\ UNCHANGED <<seed, rng, proc>>

AnyHint ==
    /\ Called(OpenCalls)
    /\ \E p \in Players :
           Becomes(doMove(Self, HintMove(p, nPlayers)))
    /\ UNCHANGED <<seed, rng, proc>>

\* the other methods of GameState that change the object, called directly
AnyAddHint ==
    /\ Called(OpenCalls)
    /\ Becomes(addHint(Self))
    /\ UNCHANGED <<seed, rng, proc>>

AnyCreateDeck ==
    /\ Called(OpenCalls)
    /\ Becomes(createDeck(Self))
    /\ UNCHANGED <<seed, rng, proc>>

AnyShuffleDeck ==
    /\ Called(OpenCalls)
    /\ rng.used < MaxShuffled
    /\ Becomes(shuffleDeck(Self, rng))
    /\ rng' = IF deckNone THEN rng ELSE AfterShuffle(deck, rng)
    /\ UNCHANGED <<seed, proc>>

AnyDealHands ==
    /\ Called(OpenCalls)
    /\ Becomes(dealHands(Self))
    /\ UNCHANGED <<seed, rng, proc>>

AnyPlayCard ==
    /\ Called(OpenCalls)
    /\ \E p \in Players, i \in Indices, c \in ColourSet :
           Becomes(playCard(Self, p, i, c))
    /\ UNCHANGED <<seed, rng, proc>>

AnyDiscardCard ==
    /\ Called(OpenCalls)
    /\ \E p \in Players, i \in Indices :
           Becomes(discard(Self, p, i))
    /\ UNCHANGED <<seed, rng, proc>>

AnyForcedDiscard ==
    /\ Called(OpenCalls)
    /\ \E p \in Players, i \in Indices :
           Becomes(forcedDiscard(Self, p, i))
    /\ UNCHANGED <<seed, rng, proc>>

\* the methods of the DiscardPile and of a Firework of the game
AnyPileSetup ==
    /\ Called(OpenCalls)
    /\ Becomes(DiscardPile_setup(Self))
    /\ UNCHANGED <<seed, rng, proc>>

AnyPileDiscard ==
    /\ Called(OpenCalls)
    /\ \E card \in OpenCards :
           Becomes(DiscardPile_discard(Self, card))
    /\ UNCHANGED <<seed, rng, proc>>

AnyPileRemove ==
    /\ Called(OpenCalls)
    /\ \E card \in OpenCards :
           Becomes(DiscardPile_remove(Self, card))
    /\ UNCHANGED <<seed, rng, proc>>

AnyAddCard ==
    /\ Called(OpenCalls)
    /\ \E c \in ColourSet, card \in OpenCards :
           Becomes(addCard(Self, c, card))
    /\ UNCHANGED <<seed, rng, proc>>

\* the methods of an Agent of cheater_smart.py constructed on the game
AnyComputeMaxAfterDiscard ==
    /\ Called(OpenCalls)
    /\ \E card \in OpenCards :
           Becomes(computeMaxAfterDiscard(Self, card).obj)
    /\ UNCHANGED <<seed, rng, proc>>

AnyFindDiscard ==
    /\ Called(OpenCalls)
    /\ \E p \in Players :
           Becomes(findDiscard(Self, p).obj)
    /\ UNCHANGED <<seed, rng, proc>>

AnyFindMove ==
    /\ Called(OpenCalls)
    /\ \E p \in Players :
           Becomes(cheater_smart_findMove(Self, p).obj)
    /\ UNCHANGED <<seed, rng, proc>>

Next ==
    \/ AnySetup
    \/ AnyReset
    \/ AnyDrawCard
    \/ AnyDiscard
    \/ AnyPlay
    \/ AnyHint
    \/ AnyAddHint
    \/ AnyCreateDeck
    \/ AnyShuffleDeck
    \/ AnyDealHands
    \/ AnyPlayCard
    \/ AnyDiscardCard
    \/ AnyForcedDiscard
    \/ AnyPileSetup
    \/ AnyPileDiscard
    \/ AnyPileRemove
    \/ AnyAddCard
    \/ AnyComputeMaxAfterDiscard
    \/ AnyFindDiscard
    \/ AnyFindMove

Spec == Init /\ [][Next]_vars

\* a driver that constructs the object, calls setup() once and then only doMove
SetUp(n, sd, none, d) ==
    /\ Is(setup(GameState(n, HANDSIZE[n], none, d), Seeded(sd)))
    /\ seed = sd
    /\ rng = AfterSetup(Seeded(sd), none)
    /\ proc = NoProcess
    /\ calls = 0

InitGame ==
    \E n \in PlayerCounts :
        \/ \E d \in GameDecks \cup {SurplusDeck} : SetUp(n, 0, FALSE, d)
        \/ \E sd \in Seeds : SetUp(n, sd, TRUE, <<>>)

\* doMove with a DISCARD, a PLAY or a HINT, as far as GameBound allows
Discard ==
    /\ \E p \in Players, i \in Indices :
           LET r == doMove(Self, DiscardMove(p, i)) IN GameBound(r) /\ Becomes(r)
    /\ UNCHANGED <<seed, rng, proc, calls>>

Play ==
    /\ \E p \in Players, i \in Indices, c \in ColourSet :
           LET r == doMove(Self, PlayMove(p, i, c)) IN GameBound(r) /\ Becomes(r)
    /\ UNCHANGED <<seed, rng, proc, calls>>

Hint ==
    /\ \E p \in Players :
           LET r == doMove(Self, HintMove(p, nPlayers)) IN GameBound(r) /\ Becomes(r)
    /\ UNCHANGED <<seed, rng, proc, calls>>

NextGame ==
    \/ Discard
    \/ Play
    \/ Hint

SpecGame == InitGame /\ [][NextGame]_vars

\* the same driver on the small supplied decks alone
InitTable == \E n \in PlayerCounts, d \in SmallDecks : SetUp(n, 0, FALSE, d)

SpecTable == InitTable /\ [][NextGame]_vars

\* a driver that constructs the object with a seed and no deck, calls
\* setup() once and then doMove and drawCard in any order
InitDeal == \E n \in PlayerCounts, sd \in DealSeeds : SetUp(n, sd, TRUE, <<>>)

DealBound(r) == DeckBound(r) /\ r.strikes <= OpenStrikes

DealDrawCard ==
    /\ \E p \in Players :
           LET r == drawCard(Self, p) IN DealBound(r) /\ Becomes(r)
    /\ UNCHANGED <<seed, rng, proc, calls>>

DealDiscard ==
    /\ \E p \in Players, i \in Indices :
           LET r == doMove(Self, DiscardMove(p, i)) IN DealBound(r) /\ Becomes(r)
    /\ UNCHANGED <<seed, rng, proc, calls>>

DealPlay ==
    /\ \E p \in Players, i \in Indices, c \in ColourSet :
           LET r == doMove(Self, PlayMove(p, i, c)) IN DealBound(r) /\ Becomes(r)
    /\ UNCHANGED <<seed, rng, proc, calls>>

DealHint ==
    /\ \E p \in Players :
           LET r == doMove(Self, HintMove(p, nPlayers)) IN DealBound(r) /\ Becomes(r)
    /\ UNCHANGED <<seed, rng, proc, calls>>

NextDeal ==
    \/ DealDrawCard
    \/ DealDiscard
    \/ DealPlay
    \/ DealHint

SpecDeal == InitDeal /\ [][NextDeal]_vars

\* a driver that fills the hands with drawCard (or setup) from a supplied
\* deck and discards: the states of the discard pile
PileCards == {Card("R", 1), Card("R", 2), Card("G", 5)}
PileDecks == UNION {[1..n -> PileCards] : n \in 0..MaxPile}

InitPile ==
    /\ \E n \in PlayerCounts, d \in PileDecks : Constructed(n, 0, FALSE, d)
    /\ proc = NoProcess
    /\ calls = 0

PileSetup ==
    /\ Becomes(setup(Self, rng))
    /\ rng' = AfterSetup(rng, deckNone)
    /\ UNCHANGED <<seed, proc, calls>>

PileDrawCard ==
    /\ \E p \in Players : Becomes(drawCard(Self, p))
    /\ UNCHANGED <<seed, rng, proc, calls>>

PileDiscard ==
    /\ \E p \in Players, i \in Indices :
           Becomes(doMove(Self, DiscardMove(p, i)))
    /\ UNCHANGED <<seed, rng, proc, calls>>

NextPile ==
    \/ PileSetup
    \/ PileDrawCard
    \/ PileDiscard

SpecPile == InitPile /\ [][NextPile]_vars

\* a process in which other GameState objects are constructed and set up
\* between the construction of this one, with no deck, and its setup()
InitSeed ==
    /\ \E n \in MINPLAYERS..MAXPLAYERS, sd \in Seeds :
           Constructed(n, sd, TRUE, <<>>)
    /\ proc = NoProcess
    /\ calls = 0

\* GameState(.., seed=sd, ..) for another object: the generator is seeded anew
OtherConstructed ==
    /\ \E sd \in Seeds : rng' = Seeded(sd)
    /\ UNCHANGED <<isOver, nHints, strikes, score, turn, playerTurn,
                   turnAfterEmpty, nPlayers, handSize, deckNone, deck,
                   moveHistory, hands, cardCounts, deadCards, total,
                   playedCards, fireworks, seed, proc,
                   calls>>

\* setup() of another object that has no deck: one more shuffle
OtherSetup ==
    /\ rng.used < MaxShuffled
    /\ rng' = Advance(rng)
    /\ UNCHANGED <<isOver, nHints, strikes, score, turn, playerTurn,
                   turnAfterEmpty, nPlayers, handSize, deckNone, deck,
                   moveHistory, hands, cardCounts, deadCards, total,
                   playedCards, fireworks, seed, proc,
                   calls>>

\* the first setup() of this object
SeedSetup ==
    /\ deckNone
    /\ Becomes(setup(Self, rng))
    /\ rng' = AfterSetup(rng, deckNone)
    /\ UNCHANGED <<seed, proc, calls>>

NextSeed ==
    \/ OtherConstructed
    \/ OtherSetup
    \/ SeedSetup

SpecSeed == InitSeed /\ [][NextSeed]_vars

\* The process of src/main.py: the object is constructed (lines 30-33), and
\* for each of N games it is set up (line 41), the agents are constructed on
\* it (44), the player of ply % nPlayers finds a move and doMove makes it
\* while the game is not over (49-53), and the object is reset (59).  Nothing
\* catches an exception: the process ends where one is raised.  The number
\* of players, the seed, the deck and the agent module are the inputs.
N == 1000
RunPlayers == PlayerCounts \cup {MAXPLAYERS}

InitRun ==
    \E n \in RunPlayers, a \in Agents :
        /\ \/ \E d \in GameDecks : Constructed(n, 0, FALSE, d)
           \/ \E sd \in Seeds : Constructed(n, sd, TRUE, <<>>)
        /\ proc = [pc |-> "setup", agent |-> a, ply |-> 0, game |-> 0]
        /\ calls = 0

\* line 41 and, when setup() returns, ply = 0 of line 47; when it raises,
\* the process ends at line 41 and ply is as the game before left it
RunSetup ==
    /\ proc.pc = "setup"
    /\ \E r \in {setup(Self, rng)} :
           /\ Becomes(r)
           /\ proc' = IF Raised(r) THEN [proc EXCEPT !.pc = "ended"]
                      ELSE [proc EXCEPT !.ply = 0, !.pc = "loop"]
    /\ rng' = AfterSetup(rng, deckNone)
    /\ UNCHANGED <<seed, calls>>

\* one pass of the loop of lines 49-53
RunMove ==
    /\ proc.pc = "loop"
    /\ ~isOver
    /\ LET found == findMove(proc.agent, Self, proc.ply % nPlayers)
           moved == IF found.exc # NoExc THEN raise(found.obj, found.exc)
                    ELSE doMove(found.obj, found.move)
       IN /\ Becomes(moved)
          /\ proc' = [proc EXCEPT !.ply = @ + 1,
                                  !.pc = IF Raised(moved) THEN "ended"
                                         ELSE "loop"]
    /\ UNCHANGED <<seed, rng, calls>>

\* the loop is left and the object reset (lines 56-59); the next game, if
\* there is one, begins
RunReset ==
    /\ proc.pc = "loop"
    /\ isOver
    /\ Becomes(reset(Self))
    /\ proc' = [proc EXCEPT !.game = @ + 1,
                            !.pc = IF proc.game + 1 < N THEN "setup"
                                   ELSE "done"]
    /\ UNCHANGED <<seed, rng, calls>>

NextRun ==
    \/ RunSetup
    \/ RunMove
    \/ RunReset

\* a running process does not pause
SpecRun == InitRun /\ [][NextRun]_vars /\ WF_vars(NextRun)

\* a driver of the engine of src/hanabi_sim: the object is constructed and
\* set up, and then its methods are called in any order, VariantCalls calls
\* at most
VariantSetUp(n, sd, none, d) ==
    /\ Is(hanabi_sim_setup(hanabi_sim_GameState(n, HANDSIZE[n], none, d),
                           Seeded(sd)))
    /\ seed = sd
    /\ rng = AfterSetup(Seeded(sd), none)
    /\ proc = NoProcess
    /\ calls = 0

InitVariant ==
    \E n \in PlayerCounts :
        \/ \E d \in GameDecks : VariantSetUp(n, 0, FALSE, d)
        \/ \E sd \in Seeds : VariantSetUp(n, sd, TRUE, <<>>)

VariantDiscard ==
    /\ Called(VariantCalls)
    /\ \E p \in Players, i \in Indices :
           Becomes(hanabi_sim_doMove(Self, DiscardMove(p, i)))
    /\ UNCHANGED <<seed, rng, proc>>

VariantPlay ==
    /\ Called(VariantCalls)
    /\ \E p \in Players, i \in Indices, c \in ColourSet :
           Becomes(hanabi_sim_doMove(Self, PlayMove(p, i, c)))
    /\ UNCHANGED <<seed, rng, proc>>

VariantHint ==
    /\ Called(VariantCalls)
    /\ \E p \in Players :
           Becomes(hanabi_sim_doMove(Self, HintMove(p, nPlayers)))
    /\ UNCHANGED <<seed, rng, proc>>

VariantReset ==
    /\ Called(VariantCalls)
    /\ Becomes(hanabi_sim_reset(Self))
    /\ UNCHANGED <<seed, rng, proc>>

VariantSetup ==
    /\ Called(VariantCalls)
    /\ deckNone => rng.used < MaxShuffled
    /\ Becomes(hanabi_sim_setup(Self, rng))
    /\ rng' = AfterSetup(rng, deckNone)
    /\ UNCHANGED <<seed, proc>>

VariantCreateDeck ==
    /\ Called(VariantCalls)
    /\ Becomes(createDeck(Self))
    /\ UNCHANGED <<seed, rng, proc>>

VariantShuffleDeck ==
    /\ Called(VariantCalls)
    /\ rng.used < MaxShuffled
    /\ Becomes(shuffleDeck(Self, rng))
    /\ rng' = IF deckNone THEN rng ELSE AfterShuffle(deck, rng)
    /\ UNCHANGED <<seed, proc>>

VariantSetupDiscardedPile ==
    /\ Called(VariantCalls)
    /\ Becomes(hanabi_sim_setupDiscardedPile(Self))
    /\ UNCHANGED <<seed, rng, proc>>

VariantDealHands ==
    /\ Called(VariantCalls)
    /\ Becomes(hanabi_sim_dealHands(Self))
    /\ UNCHANGED <<seed, rng, proc>>

VariantDrawCard ==
    /\ Called(VariantCalls)
    /\ \E p \in Players :
           Becomes(hanabi_sim_drawCard(Self, p))
    /\ UNCHANGED <<seed, rng, proc>>

VariantAddHint ==
    /\ Called(VariantCalls)
    /\ Becomes(addHint(Self))
    /\ UNCHANGED <<seed, rng, proc>>

VariantPlayCard ==
    /\ Called(VariantCalls)
    /\ \E p \in Players, i \in Indices, c \in ColourSet :
           Becomes(hanabi_sim_playCard(Self, p, i, c))
    /\ UNCHANGED <<seed, rng, proc>>

VariantDiscardCard ==
    /\ Called(VariantCalls)
    /\ \E p \in Players, i \in Indices :
           Becomes(hanabi_sim_discard(Self, p, i))
    /\ UNCHANGED <<seed, rng, proc>>

VariantForcedDiscard ==
    /\ Called(VariantCalls)
    /\ \E p \in Players, i \in Indices :
           Becomes(hanabi_sim_forcedDiscard(Self, p, i))
    /\ UNCHANGED <<seed, rng, proc>>

VariantAddCard ==
    /\ Called(VariantCalls)
    /\ \E c \in ColourSet, card \in OpenCards :
           Becomes(addCard(Self, c, card))
    /\ UNCHANGED <<seed, rng, proc>>

NextVariant ==
    \/ VariantDiscard
    \/ VariantPlay
    \/ VariantHint
    \/ VariantReset
    \/ VariantSetup
    \/ VariantCreateDeck
    \/ VariantShuffleDeck
    \/ VariantSetupDiscardedPile
    \/ VariantDealHands
    \/ VariantDrawCard
    \/ VariantAddHint
    \/ VariantPlayCard
    \/ VariantDiscardCard
    \/ VariantForcedDiscard
    \/ VariantAddCard

SpecVariant == InitVariant /\ [][NextVariant]_vars

(***************************************************************************)
(* The moves a driver may submit in the current state, and what doMove     *)
(* makes of each                                                           *)
(***************************************************************************)
DiscardMoves == {DiscardMove(p, i) : p \in Players, i \in Indices}
PlayMoves == {PlayMove(p, i, c) : p \in Players, i \in Indices, c \in ColourSet}
HintMoves == {HintMove(p, nPlayers) : p \in Players}
AllMoves == DiscardMoves \cup PlayMoves \cup HintMoves

After(m) == doMove(Self, m)
Accepted(m) == After(m).exc = NoExc

\* the move is made by the player to move and its index names a card of the hand
Addresses(m) ==
    /\ m.playerID = playerTurn
    /\ m.index < Len(hands[m.playerID])
    /\ PyValid(Len(hands[m.playerID]), m.index)
Addressed(m) == hands[m.playerID][PyPos(Len(hands[m.playerID]), m.index)]

\* the rule of the game: the card is the next card of the named colour
LegalPlay(m) ==
    /\ m.moveType = "PLAY"
    /\ Addresses(m)
    /\ Addressed(m).colour = m.colour
    /\ Addressed(m).value = Len(fireworks[m.colour]) + 1
IllegalPlay(m) ==
    /\ m.moveType = "PLAY"
    /\ Addresses(m)
    /\ ~LegalPlay(m)

Height(fw, c) == Len(fw[c])

(***************************************************************************)
(* C1.  Strike-out ending: the doMove call that resolves the third         *)
(* illegal play, the one that brings strikes to MAXSTRIKES, leaves isOver  *)
(* True.                                                                   *)
(***************************************************************************)
C1_ThirdStrikeEndsGame ==
    \A m \in PlayMoves :
        (IllegalPlay(m) /\ After(m).strikes = MAXSTRIKES) => After(m).isOver

(***************************************************************************)
(* C2.  Once isOver is True no move is accepted: every doMove call is      *)
(* rejected and leaves strikes, score, nHints, turn, hands, deck, discard  *)
(* pile, fireworks and moveHistory unchanged.                              *)
(***************************************************************************)
C2_NoMoveAfterGameOver ==
    isOver =>
        \A m \in AllMoves :
            /\ ~Accepted(m)
            /\ After(m).strikes = strikes
            /\ After(m).score = score
            /\ After(m).nHints = nHints
            /\ After(m).turn = turn
            /\ After(m).hands = hands
            /\ After(m).deck = deck
            /\ After(m).cardCounts = cardCounts
            /\ After(m).fireworks = fireworks
            /\ After(m).moveHistory = moveHistory

(***************************************************************************)
(* C3.  Perfect-score ending: an accepted move that brings score to 25     *)
(* leaves isOver True.                                                     *)
(***************************************************************************)
PerfectScore == Len(COLOURS) * Len(VALUES)

C3_PerfectScoreEndsGame ==
    \A m \in AllMoves :
        (Accepted(m) /\ score < PerfectScore /\ After(m).score = PerfectScore)
            => After(m).isOver

(***************************************************************************)
(* C4.  Bonus turns: turnAfterEmpty is nPlayers until the deck is empty,   *)
(* the doMove call that draws the last card of the deck leaves it at       *)
(* nPlayers, and from then on every accepted move that is no strike-out    *)
(* counts it down by one, passes the turn to the next player and sets      *)
(* isOver exactly when the count reaches 0: nPlayers accepted moves, one   *)
(* per player, after the last card is drawn.                               *)
(***************************************************************************)
C4_BonusTurns ==
    /\ deck # <<>> => turnAfterEmpty = nPlayers
    /\ \A m \in AllMoves :
        /\ (deck # <<>> /\ After(m).deck = <<>>) =>
               /\ After(m).turnAfterEmpty = nPlayers
               /\ After(m).isOver = isOver
        /\ (deck = <<>> /\ Accepted(m) /\ After(m).strikes # MAXSTRIKES) =>
               /\ After(m).turnAfterEmpty = turnAfterEmpty - 1
               /\ After(m).playerTurn = (playerTurn + 1) % nPlayers
               /\ After(m).isOver = (isOver \/ After(m).turnAfterEmpty = 0)

\* a play drew the last card of the deck (the player still holds it), and the
\* nPlayers moves accepted since then have ended the game
C4_Witness ==
    /\ deck = <<>>
    /\ score >= 1
    /\ hands[0] # <<>>
    /\ strikes = 0
    /\ turn = nPlayers
    /\ turnAfterEmpty = 0
    /\ isOver

(***************************************************************************)
(* C5.  Hint-token bounds: 0 <= nHints <= MAXHINTS in every state reached  *)
(* from setup() by doMove calls.                                           *)
(***************************************************************************)
C5_HintBounds == 0 <= nHints /\ nHints <= MAXHINTS

\* every token has been spent on hints, and a HINT is now refused
C5_Witness ==
    /\ nHints = 0
    /\ turn = MAXHINTS
    /\ \A m \in HintMoves : ~Accepted(m)

(***************************************************************************)
(* C6.  A voluntary DISCARD removes the addressed card from the acting     *)
(* player's hand, adds exactly 1 to that card's count in the discard pile  *)
(* and changes nHints to min(nHints + 1, MAXHINTS).                        *)
(***************************************************************************)
C6_DiscardGainsHint ==
    \A m \in DiscardMoves :
        (m.playerID = playerTurn /\ PyValid(Len(hands[m.playerID]), m.index)) =>
            LET hand == hands[m.playerID]
                k == PyPos(Len(hand), m.index)
            IN /\ SubSeq(After(m).hands[m.playerID], 1, Len(hand) - 1)
                      = RemoveAt(hand, k)
               /\ After(m).cardCounts =
                      [cardCounts EXCEPT ![hand[k]] = @ + 1]
               /\ After(m).nHints = Min(nHints + 1, MAXHINTS)

(***************************************************************************)
(* C7.  An illegal play adds exactly 1 to strikes and exactly 1 to the     *)
(* discard count of the card played, and leaves nHints, score and every    *)
(* firework unchanged.                                                     *)
(***************************************************************************)
C7_IllegalPlayStrikesAndDiscards ==
    \A m \in PlayMoves :
        IllegalPlay(m) =>
            /\ After(m).strikes = strikes + 1
            /\ After(m).cardCounts =
                   [cardCounts EXCEPT ![Addressed(m)] = @ + 1]
            /\ After(m).nHints = nHints
            /\ After(m).score = score
            /\ After(m).fireworks = fireworks

(***************************************************************************)
(* C8.  Fireworks are monotone: a doMove call never lowers a pile; a legal *)
(* play of a colour (the card has that colour and the rank one above the   *)
(* pile's height) raises that pile by exactly 1, putting the card on top,  *)
(* and every other move (illegal play, discard, hint, rejected call)       *)
(* leaves every pile as it was.                                            *)
(***************************************************************************)
C8_FireworksMonotone ==
    \A m \in AllMoves : \A c \in ColourSet :
        IF LegalPlay(m) /\ m.colour = c
        THEN After(m).fireworks[c] = Append(fireworks[c], Addressed(m))
        ELSE After(m).fireworks[c] = fireworks[c]

\* a pile has been built to its full height by legal plays
C8_Witness ==
    /\ Height(fireworks, "R") = Len(VALUES)
    /\ Height(fireworks, "G") = 1
    /\ score = Len(VALUES) + 1

(***************************************************************************)
(* C9.  Counter ranges: strikes is in 0..MAXSTRIKES and score in 0..25 in  *)
(* every state reached by doMove calls.                                    *)
(***************************************************************************)
C9_CounterRanges ==
    /\ strikes \in 0..MAXSTRIKES
    /\ score \in 0..PerfectScore

(***************************************************************************)
(* C10.  A legal play of a rank-5 card changes nHints to                   *)
(* min(nHints + 1, MAXHINTS); a legal play of a card of rank 1 to 4 leaves *)
(* nHints unchanged.                                                       *)
(***************************************************************************)
C10_RankFiveGainsHint ==
    \A m \in PlayMoves :
        LegalPlay(m) =>
            After(m).nHints =
                IF Addressed(m).value = 5
                THEN Min(nHints + 1, MAXHINTS)
                ELSE nHints

\* two tokens were spent on hints and one came back for the red 5
C10_Witness ==
    /\ Card("R", 5) \in playedCards
    /\ score = Len(VALUES)
    /\ turn = 2
    /\ nHints = MAXHINTS - 1

(***************************************************************************)
(* The discard pile                                                        *)
(***************************************************************************)
CriticalSet == Range(getCriticalCards(Self))

\* no card has more copies in the pile than the game has of it
PileWithinCounts == \A card \in Cards : cardCounts[card] <= CARDCOUNTS[card.value]

(***************************************************************************)
(* C11.  Critical/dead disjointness: no card is both in the list           *)
(* getCriticalCards() returns and in deadCards.                            *)
(***************************************************************************)
C11_CriticalDeadDisjoint == CriticalSet \cap deadCards = {}

(***************************************************************************)
(* C12, as claimed.  Dead-set characterisation: after any sequence of      *)
(* discards made through the engine, deadCards is exactly the set of cards *)
(* (c, r) for which some rank r' <= r of colour c has                      *)
(* cardCounts[(c, r')] == CARDCOUNTS[r']; with all three rank-1 cards of a *)
(* colour discarded, ranks 1 to 5 of it are dead.                          *)
(***************************************************************************)
C12_DeadSetByEqualCounts ==
    /\ deadCards =
           {card \in Cards :
               \E w \in ValueSet :
                   /\ w <= card.value
                   /\ cardCounts[Card(card.colour, w)] = CARDCOUNTS[w]}
    /\ \A c \in ColourSet :
           cardCounts[Card(c, 1)] = CARDCOUNTS[1] =>
               {Card(c, v) : v \in ValueSet} \subseteq deadCards

(***************************************************************************)
(* C12, as amended.  After any sequence of discards made through the       *)
(* engine, deadCards is exactly the set of cards (c, r) for which some     *)
(* rank r' <= r of colour c has been discarded at least as often as the    *)
(* game has copies of it (cardCounts[(c, r')] >= CARDCOUNTS[r']); with     *)
(* three or more rank-1 cards of a colour discarded, ranks 1 to 5 of it    *)
(* are dead.                                                               *)
(***************************************************************************)
C12_DeadSetCharacterised ==
    /\ deadCards =
           {card \in Cards :
               \E w \in ValueSet :
                   /\ w <= card.value
                   /\ cardCounts[Card(card.colour, w)] >= CARDCOUNTS[w]}
    /\ \A c \in ColourSet :
           cardCounts[Card(c, 1)] >= CARDCOUNTS[1] =>
               {Card(c, v) : v \in ValueSet} \subseteq deadCards

\* the three red 1s have been discarded and the whole red colour is dead
C12_Witness ==
    /\ cardCounts[Card("R", 1)] = CARDCOUNTS[1]
    /\ total = CARDCOUNTS[1]
    /\ deadCards = {Card("R", v) : v \in ValueSet}

(***************************************************************************)
(* C13.  After a legal play the card played is not reported critical:      *)
(* isCritical(card) is False when the doMove call is over.                 *)
(***************************************************************************)
C13_PlayedCardNotCritical ==
    \A m \in PlayMoves :
        LegalPlay(m) => ~isCritical(After(m), Addressed(m))

(***************************************************************************)
(* C14.  getCriticalCards() returns exactly the cards with one copy left,  *)
(* CARDCOUNTS[value] - cardCounts[card] = 1, each once: the five rank-5    *)
(* cards on an empty pile, and a card of rank 2, 3 or 4 from the discard   *)
(* of its first copy.                                                      *)
(***************************************************************************)
C14_CriticalIsOneCopyLeft ==
    /\ CriticalSet =
           {card \in Cards : CARDCOUNTS[card.value] - cardCounts[card] = 1}
    /\ Len(getCriticalCards(Self)) = Cardinality(CriticalSet)
    /\ total = 0 => CriticalSet = {Card(c, 5) : c \in ColourSet}
    /\ \A m \in DiscardMoves :
           ( /\ Addresses(m)
             /\ Addressed(m).value \in {2, 3, 4}
             /\ cardCounts[Addressed(m)] = 0 )
               => /\ ~isCritical(Self, Addressed(m))
                  /\ isCritical(After(m), Addressed(m))

\* one red 2 has been discarded, and the red 2 is now critical
C14_Witness ==
    /\ cardCounts[Card("R", 2)] = 1
    /\ total = 1
    /\ isCritical(Self, Card("R", 2))

(***************************************************************************)
(* C15.  getMaxScore() is the number of (colour, rank) pairs such that     *)
(* every rank of the colour from 1 up to it has fewer copies discarded     *)
(* than exist, which is the sum over the colours of the consecutive live   *)
(* ranks from 1; 25 on an empty pile, 21 with just the two copies of one   *)
(* rank-2 card discarded.                                                  *)
(***************************************************************************)
C15_MaxScore ==
    /\ getMaxScore(Self) =
           Cardinality({card \in Cards :
               \A w \in ValueSet :
                   w <= card.value =>
                       cardCounts[Card(card.colour, w)] < CARDCOUNTS[w]})
    /\ total = 0 => getMaxScore(Self) = 25
    /\ \A c \in ColourSet :
           (cardCounts[Card(c, 2)] = 2 /\ total = 2) => getMaxScore(Self) = 21

\* both red 2s have been discarded: ranks 2 to 5 of red are lost
C15_Witness ==
    /\ cardCounts[Card("R", 2)] = 2
    /\ total = 2
    /\ getMaxScore(Self) = 21

(***************************************************************************)
(* C16.  reset() leaves the object as a newly constructed GameState of the *)
(* same nPlayers and handSize: every field is equal, and isUseless and     *)
(* isCritical answer for every card as in the new game.                    *)
(***************************************************************************)
C16_ResetIsFresh ==
    LET fresh == GameState(nPlayers, handSize, TRUE, <<>>)
    IN /\ reset(Self) = fresh
       /\ \A card \in Cards :
              /\ isUseless(reset(Self), card) = isUseless(fresh, card)
              /\ isCritical(reset(Self), card) = isCritical(fresh, card)

(***************************************************************************)
(* C17.  Seed determinism: once this game, constructed with no deck, has   *)
(* been set up, its deck is the deck of a game constructed with the same   *)
(* seed and set up at once, whatever constructions and setups of other     *)
(* games came between its construction and its setup.                      *)
(***************************************************************************)
C17_SeedDeterminism ==
    ~deckNone =>
        deck = setup(GameState(nPlayers, handSize, TRUE, <<>>),
                     Seeded(seed)).deck

(***************************************************************************)
(* C18.  createDeck() builds TOTALCARDS = 50 cards, CARDCOUNTS[rank]       *)
(* copies of every colour and rank, and shuffleDeck() leaves the length    *)
(* and the number of copies of every card as they were.                    *)
(***************************************************************************)
Copies_In(d, card) == Cardinality({i \in DOMAIN d : d[i] = card})
\* the generator seeded with sd and k decks shuffled since
RECURSIVE GeneratorAfter(_, _)
GeneratorAfter(sd, k) ==
    IF k = 0 THEN Seeded(sd) ELSE Advance(GeneratorAfter(sd, k - 1))
\* the states the generator is in when a deck is shuffled
ShuffleOrders == {GeneratorAfter(sd, k) : sd \in Seeds, k \in 0..MaxShuffled}

C18_DeckComposition ==
    LET created == createDeck(Self)
    IN /\ Len(created.deck) = TOTALCARDS
       /\ Len(created.deck) = 50
       /\ \A card \in Cards :
              Copies_In(created.deck, card) = CARDCOUNTS[card.value]
       /\ \A j \in ShuffleOrders :
              LET shuffled == shuffleDeck(created, j)
              IN /\ Len(shuffled.deck) = Len(created.deck)
                 /\ \A card \in Cards :
                        Copies_In(shuffled.deck, card)
                            = Copies_In(created.deck, card)

\* setup() has created and shuffled a deck and drawn its last card
C18_Witness ==
    /\ ~deckNone
    /\ Len(deck) = TOTALCARDS - 1
    /\ deck # Front(DeckFrom(1))
    /\ \E j \in ShuffleOrders :
           /\ deck = Front(Shuffled(DeckFrom(1), j))
           /\ hands[0] = <<Last(Shuffled(DeckFrom(1), j))>>

(***************************************************************************)
(* C19.  After setup() of a game with n players and hand size h every hand *)
(* holds h cards, dealt from the top of the deck one card per player per   *)
(* round in player order, and the deck holds 50 - n*h cards.               *)
(***************************************************************************)
C19_SetupDealsFullHands ==
    \A sd \in Seeds :
        LET new == GameState(nPlayers, handSize, TRUE, <<>>)
            full == shuffleDeck(createDeck(new), Seeded(sd)).deck
            dealt == setup(new, Seeded(sd))
        IN /\ dealt.exc = NoExc
           /\ Len(dealt.deck) = TOTALCARDS - nPlayers * handSize
           /\ \A p \in Players :
                  /\ Len(dealt.hands[p]) = handSize
                  /\ \A k \in 1..handSize :
                         dealt.hands[p][k]
                             = full[TOTALCARDS - ((k - 1) * nPlayers + p)]

(***************************************************************************)
(* C20.  Hinting oneself is illegal: doMove rejects a HINT whose receiving *)
(* player is the acting player, and nHints, turn and moveHistory are as    *)
(* before the call.                                                        *)
(***************************************************************************)
C20_SelfHintRejected ==
    \A p \in Players :
        LET after == doMove(Self, SelfHintMove(p))
        IN /\ after.exc # NoExc
           /\ after.nHints = nHints
           /\ after.turn = turn
           /\ after.moveHistory = moveHistory

(***************************************************************************)
(* C21.  A HINT submitted when nHints is 0 is rejected with an error and   *)
(* changes nothing: nHints stays 0, turn and playerTurn do not advance,    *)
(* the move is not appended to moveHistory, and no other field changes.    *)
(***************************************************************************)
C21_HintWithoutTokenRejected ==
    nHints = 0 =>
        \A m \in HintMoves : After(m) = raise(Self, "AssertionError")

\* the game goes on with no token left, and the player to move hints
C21_Witness ==
    /\ nHints = 0
    /\ ~isOver
    /\ deck # <<>>
    /\ \E m \in HintMoves :
           /\ m.playerID = playerTurn
           /\ After(m).exc = "AssertionError"
           /\ After(m).nHints = 0

(***************************************************************************)
(* C22.  The player to move is playerTurn = turn mod nPlayers, and a move  *)
(* of any other player is rejected with an error before any mutation:      *)
(* hands, deck, discard pile, fireworks, nHints, strikes, score, turn and  *)
(* moveHistory are all as before the call (an AssertionError in the engine *)
(* of src/hanasim, a ValueError in that of src/hanabi_sim).                *)
(***************************************************************************)
C22_OutOfTurnRejected ==
    /\ playerTurn = turn % nPlayers
    /\ LET asserted == raise(Self, "AssertionError")
           refused == raise(Self, "ValueError")
       IN \A m \in AllMoves :
              m.playerID # playerTurn =>
                  /\ After(m) = asserted
                  /\ hanabi_sim_doMove(Self, m) = refused

\* player 1 is to move and player 0, who holds a card, discards it out of turn
C22_Witness ==
    /\ playerTurn = 1
    /\ turn >= 1
    /\ hands[0] # <<>>
    /\ After(DiscardMove(0, 0)).exc = "AssertionError"
    /\ After(DiscardMove(0, 0)).hands = hands

\* the move is made by the player to move and its index lies in 0..len(hand)-1
InHand(m) ==
    /\ m.playerID = playerTurn
    /\ m.index \in 0..(Len(hands[m.playerID]) - 1)

(***************************************************************************)
(* C23.  A PLAY or DISCARD of the player to move whose index lies outside  *)
(* 0..len(hand)-1, negative indices included, is rejected with an error    *)
(* and leaves the whole game state unchanged.                              *)
(***************************************************************************)
C23_BadIndexRejected ==
    \A m \in DiscardMoves \cup PlayMoves :
        (m.playerID = playerTurn /\ ~InHand(m)) =>
            /\ After(m).exc # NoExc
            /\ After(m) = raise(Self, After(m).exc)

(***************************************************************************)
(* C24.  getPlayableCards() holds, for each colour, the card (colour,      *)
(* height + 1) while that rank is at most 5, and nothing else: no card of  *)
(* rank 6 or higher, and no card of a colour whose firework is complete.   *)
(***************************************************************************)
C24_PlayableCards ==
    LET playable == Range(getPlayableCards(Self))
    IN /\ \A card \in playable : card.value <= Len(VALUES)
       /\ \A c \in ColourSet :
              IF Height(fireworks, c) < Len(VALUES)
              THEN {card \in playable : card.colour = c}
                       = {Card(c, Height(fireworks, c) + 1)}
              ELSE {card \in playable : card.colour = c} = {}

(***************************************************************************)
(* C25.  Hand-size invariant: every hand holds at most handSize cards; a   *)
(* PLAY or DISCARD made while the deck is non-empty leaves the acting      *)
(* player with exactly handSize cards, and one made once the deck is empty *)
(* leaves the acting player with one card less.                            *)
(***************************************************************************)
C25_HandSize ==
    /\ \A p \in Players : Len(hands[p]) <= handSize
    /\ \A m \in DiscardMoves \cup PlayMoves :
           InHand(m) =>
               IF deck # <<>>
               THEN Len(After(m).hands[m.playerID]) = handSize
               ELSE Len(After(m).hands[m.playerID])
                        = Len(hands[m.playerID]) - 1

(***************************************************************************)
(* C26.  A play, failed play or discard of the card at index i leaves the  *)
(* acting player's hand as the other cards in their old order, followed by *)
(* the replacement card drawn from the top of the deck if there was one;   *)
(* the hands of all other players are unchanged.                           *)
(***************************************************************************)
C26_HandOrder ==
    \A m \in DiscardMoves \cup PlayMoves :
        InHand(m) =>
            LET p == m.playerID
                drawn == IF deck # <<>> THEN <<Last(deck)>> ELSE <<>>
            IN /\ After(m).hands[p] = RemoveAt(hands[p], m.index + 1) \o drawn
               /\ \A q \in Players \ {p} : After(m).hands[q] = hands[q]

(***************************************************************************)
(* C27.  Every game terminates: from the state after setup(), every        *)
(* sequence of accepted moves reaches isOver = TRUE after finitely many    *)
(* moves.                                                                  *)
(***************************************************************************)
C27_GameTerminates == <>isOver

\* the endings that hold of the object r: strike-out, perfect score, and the
\* bonus turns used up after the deck ran out
Endings(r) ==
    {k \in 1..3 :
        \/ k = 1 /\ r.strikes = MAXSTRIKES
        \/ k = 2 /\ r.score = PerfectScore
        \/ k = 3 /\ r.deck = <<>> /\ r.turnAfterEmpty = 0}

(***************************************************************************)
(* C28.  Exactly one ending applies per game: in the state a doMove call   *)
(* leaves when it turns isOver from False to True, exactly one of          *)
(* strikes = 3, score = 25, (deck empty and turnAfterEmpty = 0) holds.     *)
(***************************************************************************)
C28_ExactlyOneEnding ==
    \A m \in AllMoves :
        (~isOver /\ After(m).isOver) => Cardinality(Endings(After(m))) = 1

(***************************************************************************)
(* C29.  Drawing never fails: drawCard for a player who holds fewer than   *)
(* handSize cards returns without an error; with a non-empty deck the top  *)
(* card moves from the deck to the end of that hand, with an empty deck    *)
(* hand and deck are left as they were.                                    *)
(***************************************************************************)
C29_DrawNeverFails ==
    \A p \in Players :
        Len(hands[p]) < handSize =>
            LET drawn == drawCard(Self, p)
            IN /\ drawn.exc = NoExc
               /\ IF deck # <<>>
                  THEN /\ drawn.deck = Front(deck)
                       /\ drawn.hands = [hands EXCEPT ![p] = Append(@, Last(deck))]
                  ELSE /\ drawn.deck = deck
                       /\ drawn.hands = hands

\* what a HINT does and leaves alone, between the object before and after
HintEffect(before, after) ==
    /\ after.nHints = before.nHints - 1
    /\ after.hands = before.hands
    /\ after.deck = before.deck
    /\ after.fireworks = before.fireworks
    /\ after.cardCounts = before.cardCounts
    /\ after.score = before.score
    /\ after.strikes = before.strikes

(***************************************************************************)
(* C30.  An accepted HINT decrements nHints by exactly one and changes no  *)
(* hand, the deck, no firework, the discard pile, score or strikes, in the *)
(* engine of src/hanasim and in the engine of src/hanabi_sim alike.        *)
(***************************************************************************)
C30_HintSpendsOneToken ==
    \A m \in HintMoves :
        /\ Accepted(m) => HintEffect(Self, After(m))
        /\ hanabi_sim_doMove(Self, m).exc = NoExc
               => HintEffect(Self, hanabi_sim_doMove(Self, m))

\* the card carries the hinted attribute as an annotation
Noted(card, attribute) ==
    /\ "hints" \in DOMAIN card
    /\ attribute \in card.hints

\* what the hint m of player p to player t must leave behind: the attribute
\* noted on the cards of t's hand picked out by match, every other card of
\* every hand and of the deck as it was
HintRecorded(m, t, attribute, match) ==
    /\ \A k \in DOMAIN hands[t] :
           IF k \in match
           THEN Noted(After(m).hands[t][k], attribute)
           ELSE After(m).hands[t][k] = hands[t][k]
    /\ \A q \in Players \ {t} : After(m).hands[q] = hands[q]
    /\ After(m).deck = deck

(***************************************************************************)
(* C31.  An accepted hint of a colour (or of a rank) to another player     *)
(* records the hinted attribute on exactly the cards of that player's hand *)
(* that have this colour (rank), and leaves every other card, of that      *)
(* hand, of the other hands and of the deck, as it was.                    *)
(***************************************************************************)
C31_HintRecorded ==
    \A p \in Players, t \in Players :
        t # p =>
            /\ \A c \in ColourSet :
                   Accepted(AttributeHint(p, t, c)) =>
                       HintRecorded(AttributeHint(p, t, c), t, c,
                           {k \in DOMAIN hands[t] : hands[t][k].colour = c})
            /\ \A v \in ValueSet :
                   Accepted(AttributeHint(p, t, v)) =>
                       HintRecorded(AttributeHint(p, t, v), t, v,
                           {k \in DOMAIN hands[t] : hands[t][k].value = v})

\* the pile of the object as the probe of card leaves it
Probed(card) == computeMaxAfterDiscard(Self, card).obj

(***************************************************************************)
(* C32.  The what-if probe is a round trip: discard(card) followed by      *)
(* remove(card) leaves cardCounts, deadCards and total of the discard pile *)
(* as they were, for every card, a critical one included.                  *)
(***************************************************************************)
C32_ProbeRoundTrip ==
    \A card \in Cards :
        /\ Probed(card).exc = NoExc
        /\ Probed(card).cardCounts = cardCounts
        /\ Probed(card).deadCards = deadCards
        /\ Probed(card).total = total

\* the bookkeeping a doMove call that left the object as after must show:
\* one entry more and one turn more if it was accepted, neither otherwise
Booked(m, after) ==
    IF after.exc = NoExc
    THEN /\ after.moveHistory = Append(moveHistory, m)
         /\ after.turn = turn + 1
    ELSE /\ after.moveHistory = moveHistory
         /\ after.turn = turn

(***************************************************************************)
(* C34.  Turn bookkeeping: every accepted doMove appends exactly one entry *)
(* to moveHistory, leaving the earlier entries as they were, and adds one  *)
(* to turn; a rejected one does neither; so len(moveHistory) = turn and    *)
(* playerTurn = turn mod nPlayers in every state.  The same holds of       *)
(* doMove in src/hanabi_sim.                                               *)
(***************************************************************************)
C34_TurnBookkeeping ==
    /\ Len(moveHistory) = turn
    /\ playerTurn = turn % nPlayers
    /\ \A m \in AllMoves :
           /\ Booked(m, After(m))
           /\ Booked(m, hanabi_sim_doMove(Self, m))

\* two moves are in the history, one of each player, and a play that was
\* rejected after its strike is not
C34_Witness ==
    /\ turn = 2
    /\ strikes >= 1
    /\ Len(moveHistory) = 2
    /\ moveHistory[1].playerID = 0
    /\ moveHistory[2].playerID = 1

(***************************************************************************)
(* C35.  Pace: right after setup() of a five-player game computePace() is  *)
(* 10; a legal play made with a non-empty deck leaves it as it was; a      *)
(* discard made with a non-empty deck that does not lower getMaxScore()    *)
(* lowers it by exactly one.                                               *)
(***************************************************************************)
C35_PaceAccounting ==
    (~deckNone /\ turn = 0) =>
        /\ nPlayers = 5 => computePace(Self) = 10
        /\ \A m \in PlayMoves :
               (LegalPlay(m) /\ Len(deck) > 0) =>
                   computePace(After(m)) = computePace(Self)
        /\ \A m \in DiscardMoves :
               (Addresses(m) /\ Len(deck) > 0
                    /\ getMaxScore(After(m)) = getMaxScore(Self)) =>
                   computePace(After(m)) = computePace(Self) - 1

\* the copies of card the object holds: in the deck, in the hands, counted
\* by the discard pile and on the firework of its colour
RECURSIVE HeldInHands(_, _)
HeldInHands(p, card) ==
    IF p = nPlayers THEN 0
    ELSE Copies_In(hands[p], card) + HeldInHands(p + 1, card)
Held(card) ==
    Copies_In(deck, card) + HeldInHands(0, card) + cardCounts[card]
        + Copies_In(fireworks[card.colour], card)

RECURSIVE SumCounts(_)
SumCounts(cs) ==
    IF cs = {} THEN 0
    ELSE LET card == CHOOSE x \in cs : TRUE
         IN cardCounts[card] + SumCounts(cs \ {card})

(***************************************************************************)
(* C36.  Card conservation: in every state reached from setup() with the   *)
(* deck it generates, every card is held (deck, hands, discard counts and  *)
(* fireworks together) exactly as often as the 50-card deck has it, on the *)
(* firework of its colour only; no discard count exceeds CARDCOUNTS of the *)
(* rank; and the total of the pile is the sum of its counts.               *)
(***************************************************************************)
C36_CardConservation ==
    /\ \A card \in Cards :
           /\ Held(card) = CARDCOUNTS[card.value]
           /\ \A c \in ColourSet :
                  c # card.colour => Copies_In(fireworks[c], card) = 0
    /\ PileWithinCounts
    /\ total = SumCounts(Cards)

\* a card of the generated deck lies on a firework, another is in the pile
\* and a third has been drawn
C36_Witness ==
    /\ deckNone = FALSE
    /\ Len(deck) = TOTALCARDS - 3
    /\ score = 1
    /\ total = 1
    /\ HeldInHands(0, hands[0][1]) >= 1

\* the heights of the firework piles of COLOURS[i..], added up
RECURSIVE HeightsFrom(_)
HeightsFrom(i) ==
    IF i > Len(COLOURS) THEN 0
    ELSE Height(fireworks, COLOURS[i]) + HeightsFrom(i + 1)

(***************************************************************************)
(* C37.  Score equals fireworks: score is the sum of the heights of the    *)
(* firework piles, and the pile of a colour, of height k, holds the cards  *)
(* of ranks 1..k of that colour in ascending order.                        *)
(***************************************************************************)
C37_ScoreIsFireworks ==
    /\ score = HeightsFrom(1)
    /\ \A c \in ColourSet :
           fireworks[c] = [k \in 1..Height(fireworks, c) |-> Card(c, k)]

\* two cards have been played on one pile, and two moves were accepted
C37_Witness ==
    /\ score = 2
    /\ Height(fireworks, "R") = 2
    /\ turn = 2

(***************************************************************************)
(* C38.  Maximum score is consistent with the dead set: in every state     *)
(* reached without DiscardPile.remove, getMaxScore() is 25 less the number *)
(* of dead cards, and no doMove call leaves getMaxScore() higher than it   *)
(* found it.                                                               *)
(***************************************************************************)
C38_MaxScoreIsLiveCards ==
    /\ getMaxScore(Self) = 25 - Cardinality(deadCards)
    /\ \A after \in {After(m) : m \in AllMoves} :
           getMaxScore(after) <= getMaxScore(Self)

\* the G5 and one R2 are in the pile, one card is dead, and the discard of
\* the other R2 takes the maximum from 24 to 20
C38_Witness ==
    /\ cardCounts[Card("R", 2)] = 1
    /\ cardCounts[Card("G", 5)] = 1
    /\ Cardinality(deadCards) = 1
    /\ getMaxScore(Self) = 24
    /\ \E m \in DiscardMoves : getMaxScore(After(m)) = 20

\* the cards that lie on the firework piles
OnFireworks == UNION {Range(fireworks[c]) : c \in ColourSet}

\* the object holds no more copies of a card than the game has of it
NoSurplus == \A card \in Cards : Held(card) <= CARDCOUNTS[card.value]

(***************************************************************************)
(* C39, as claimed.  Score never exceeds the attainable maximum: in every  *)
(* reachable state score <= getMaxScore(), and no card that lies on a      *)
(* firework is in deadCards.                                               *)
(***************************************************************************)
C39_ScoreWithinMaxOfAnyDeck ==
    /\ score <= getMaxScore(Self)
    /\ OnFireworks \cap deadCards = {}

(***************************************************************************)
(* C39, as amended.  In every reachable state of a game whose deck has no  *)
(* more copies of a card than CARDCOUNTS gives its rank,                   *)
(* score <= getMaxScore(), and no card that lies on a firework is in       *)
(* deadCards.                                                              *)
(***************************************************************************)
C39_ScoreWithinMax ==
    NoSurplus =>
        /\ score <= getMaxScore(Self)
        /\ OnFireworks \cap deadCards = {}

\* four red cards are on the firework and the fifth is dead
C39_Witness ==
    /\ NoSurplus
    /\ score = 4
    /\ Height(fireworks, "R") = 4
    /\ Card("R", 5) \in deadCards
    /\ getMaxScore(Self) = 24

\* what the calls named by the claim leave of an object: doMove with any
\* move, drawCard, discard and playCard with any arguments, and setup()
LaterCalls ==
    {After(m) : m \in AllMoves}
        \cup {drawCard(Self, p) : p \in Players}
        \cup {discard(Self, p, i) : p \in Players, i \in Indices}
        \cup {playCard(Self, p, i, c) : p \in Players, i \in Indices, c \in ColourSet}
        \cup {setup(Self, rng)}

(***************************************************************************)
(* C40.  isOver is stable: once isOver is True, every doMove, drawCard,    *)
(* discard and playCard call, accepted or not, and setup() leave it True;  *)
(* reset() makes it False.                                                 *)
(***************************************************************************)
C40_IsOverStable ==
    isOver =>
        /\ \A after \in LaterCalls : after.isOver
        /\ ~reset(Self).isOver

\* the game ended when the bonus turns ran out, and a move was accepted after
C40_Witness ==
    /\ isOver
    /\ strikes < MAXSTRIKES
    /\ turnAfterEmpty < 0
    /\ Len(moveHistory) > nPlayers

=============================================================================
